---- MODULE Spec2Model ----
(***************************************************************************)
(* Model of slumber's request orchestration layer: the per-recipe request  *)
(* state machine of AppState (src/tui/state.rs) and the single-write       *)
(* response slot of HttpEngine (src/http.rs), driven by the control loop   *)
(* that dispatches a request and hands its completion back.                *)
(***************************************************************************)
EXTENDS Integers, Sequences, FiniteSets, TLC

(***************************************************************************)
(* Bounds of the model                                                     *)
(***************************************************************************)
\* number of requests started and not yet handed back at any one time
MaxPending == 2
\* last value of the wall clock (Utc::now())
MaxTime == 1
\* number of background tasks of one request running at any one time
MaxTasks == 2

\* recipe identities (RequestRecipeId)
RecipeIds == {"r1", "r2"}
\* the recipe lists a collection file can hold
Collections == {<< >>, <<"r1">>, <<"r1", "r2">>}
\* the collection the application starts with
InitialCollection == <<"r1", "r2">>
\* outcomes of reqwest's execute + text: Ok(Response) or Err(reqwest::Error)
TransportResults == {"Ok", "Err"}

(***************************************************************************)
(* Option<T>                                                               *)
(***************************************************************************)
None == [some |-> FALSE]
Some(v) == [some |-> TRUE, value |-> v]

\* Option<bool>::unwrap_or_default
unwrap_or_default(opt) == IF opt.some THEN opt.value ELSE FALSE

(***************************************************************************)
(* HashMap<RequestRecipeId, RequestState> as a function on its key set     *)
(***************************************************************************)
\* HashMap::new
HashMapNew == [k \in {} |-> None]
\* HashMap::get / get_mut
Get(m, k) == IF k \in DOMAIN m THEN Some(m[k]) ELSE None
\* assignment through an occupied entry, or insertion through a vacant one
Insert(m, k, v) == [x \in (DOMAIN m) \cup {k} |-> IF x = k THEN v ELSE m[x]]

(***************************************************************************)
(* RequestState                                                            *)
(***************************************************************************)
Loading(start_time) == [kind |-> "Loading", start_time |-> start_time]
Response(record) == [kind |-> "Response", record |-> record]
Error(error, start_time, end_time) ==
    [kind |-> "Error", error |-> error,
     start_time |-> start_time, end_time |-> end_time]

\* RequestState::is_loading
is_loading(state) == state.kind = "Loading"

\* RequestState::start_time
start_time_of(state) ==
    CASE state.kind = "Loading" -> state.start_time
      [] state.kind = "Response" -> state.record.start_time
      [] state.kind = "Error" -> state.start_time

\* duration that goes on counting after the request has failed
duration_running_error(state, t) ==
    CASE state.kind = "Loading" -> t - state.start_time
      [] state.kind = "Response" -> state.record.end_time - state.record.start_time
      [] state.kind = "Error" -> t - state.start_time

\* RequestState::duration, with Utc::now() = t
duration(state, t) ==
    CASE state.kind = "Loading" -> t - state.start_time
      [] state.kind = "Response" -> state.record.end_time - state.record.start_time
      [] state.kind = "Error" -> state.end_time - state.start_time

\* RequestRecord of a received response: the request it answers (the record's
\* timing and content are not modelled)
RequestRecord(request) == [request |-> request]


(***************************************************************************)
(* StatefulList<RequestRecipe>: the recipe list and its selection.  An     *)
(* item of the list is the recipe's identity.                              *)
(***************************************************************************)
\* StatefulList::with_items
with_items(items) ==
    [state |-> IF items # << >> THEN Some(0) ELSE None, items |-> items]

\* StatefulList::selected (Vec::get of the selected index)
selected(list) ==
    IF list.state.some
    THEN IF list.state.value < Len(list.items)
         THEN Some(list.items[list.state.value + 1])
         ELSE None
    ELSE None

(***************************************************************************)
(* StatefulSelect<T>: a fixed list of values, one of which is selected      *)
(***************************************************************************)
\* the variants of the enums, in the order of T::iter()
PrimaryPane == <<"ProfileList", "RecipeList", "Request", "Response">>
RequestTab == <<"Body", "Query", "Headers">>
ResponseTab == <<"Body", "Headers">>

\* FixedSelect::DEFAULT_INDEX: 1 for PrimaryPane, the trait's 0 otherwise
DEFAULT_INDEX(values) == IF values = PrimaryPane THEN 1 ELSE 0

\* StatefulSelect::new (the enums are not empty: no panic)
StatefulSelectNew(values) == [values |-> values, selected |-> DEFAULT_INDEX(values)]

\* StatefulSelect::selected_index
selected_index(select) == select.selected

\* StatefulSelect::selected: &self.values[self.selected]
StatefulSelect_selected(select) == select.values[select.selected + 1]

\* previous that stays on the first value: saturating_sub(1)
StatefulSelect_previous_saturating(select) ==
    [select EXCEPT !.selected = IF select.selected >= 1
                                THEN select.selected - 1
                                ELSE 0]

\* StatefulSelect::previous: checked_sub(1).unwrap_or(len - 1)
StatefulSelect_previous(select) ==
    [select EXCEPT !.selected = IF select.selected >= 1
                                THEN select.selected - 1
                                ELSE Len(select.values) - 1]

\* StatefulSelect::next
StatefulSelect_next(select) ==
    [select EXCEPT !.selected = (select.selected + 1) % Len(select.values)]

\* PrimaryPane::input_handler
PrimaryPane_input_handler(pane) ==
    CASE pane = "ProfileList" -> "ProfileListPane"
      [] pane = "RecipeList" -> "RecipeListPane"
      [] pane = "Request" -> "RequestPane"
      [] pane = "Response" -> "ResponsePane"

(***************************************************************************)
(* Notification                                                            *)
(***************************************************************************)
\* Notification::NOTIFICATION_DECAY, in milliseconds
NOTIFICATION_DECAY == 5000

\* Notification { message, timestamp }
Notification(message, timestamp) == [message |-> message, timestamp |-> timestamp]

\* expired that lets the notification live through the last millisecond
expired_after_decay(shown, t) == t - shown.timestamp > NOTIFICATION_DECAY

\* Notification::expired, with Utc::now() = t
expired(shown, t) == t - shown.timestamp >= NOTIFICATION_DECAY

(***************************************************************************)
(* Result<T, E>.  In the definitions below a local of the code is bound    *)
(* as `x \in {e}`, so that e is evaluated once wherever x is used.         *)
(***************************************************************************)
Ok(v) == [ok |-> TRUE, value |-> v]
Err(e) == [ok |-> FALSE, error |-> e]

(***************************************************************************)
(* Template text.  A string is a sequence of tokens: "{{" and "}}", a      *)
(* blank, the key separator ".", and words (a word token is a run of word  *)
(* characters, so two adjacent word tokens spell one longer word).         *)
(***************************************************************************)
\* tokens that spell the reserved first segments of a key
ReservedWords == {"chains", "env"}
\* tokens of the regex class [\w\d._-] used for key texts in the checks
KeyTokens == {".", "chains", "env", "a"}
\* longest key text handed to TemplateKey::parse on its own
MaxKeyLen == 5

\* all token sequences over `tokens` of length at most n
RECURSIVE SeqsUpTo(_, _)
SeqsUpTo(tokens, n) ==
    IF n = 0 THEN {<< >>}
    ELSE LET shorter == SeqsUpTo(tokens, n - 1)
         IN  shorter \cup {Append(s, t) : s \in {x \in shorter : Len(x) = n - 1},
                                           t \in tokens}

\* the keys of test_parse_template_key_success and
\* test_parse_template_key_error
TestedKeys ==
    {<<"field_id">>, <<"chains", ".", "chain_id">>, <<"chains", ".">>,
     <<"env", ".", "TEST">>,
     <<".">>, <<".", "bad">>, <<"bad", ".">>, <<"chains", ".", "good", ".", "bad">>}

\* the key texts handed to TemplateKey::parse: the regex captures one
\* character or more
KeyTexts == (SeqsUpTo(KeyTokens, MaxKeyLen) \ {<< >>}) \cup TestedKeys

\* a &str borrowed from the template or the context, and an owned String
Borrowed(text) == [text |-> text, owned |-> FALSE]
\* str::to_owned
to_owned(s) == [text |-> s.text, owned |-> TRUE]

\* str::split('.') collected into a Vec: the segments between the
\* separators, the k-th one lying between separator k - 1 and separator k
split(s) ==
    LET dots == {i \in 1 .. Len(s) : s[i] = "."}
        before(k) == IF k = 1 THEN 0
                     ELSE CHOOSE i \in dots :
                              Cardinality({j \in dots : j < i}) = k - 2
        after(k) == IF k = Cardinality(dots) + 1 THEN Len(s) + 1
                    ELSE CHOOSE i \in dots :
                             Cardinality({j \in dots : j < i}) = k - 1
    IN  [k \in 1 .. (Cardinality(dots) + 1) |->
            SubSeq(s, before(k) + 1, after(k) - 1)]

(***************************************************************************)
(* TemplateKey and TemplateError                                           *)
(***************************************************************************)
Field(name) == [variant |-> "Field", name |-> name]
Chain(chain_id) == [variant |-> "Chain", name |-> chain_id]
Environment(variable) == [variant |-> "Environment", name |-> variable]

InvalidKey(key) == [variant |-> "InvalidKey", key |-> key]
FieldUnknown(field) == [variant |-> "FieldUnknown", field |-> field]
ChainUnknown(chain_id) == [variant |-> "ChainUnknown", chain_id |-> chain_id]
ChainNoResponse(chain_id) == [variant |-> "ChainNoResponse", chain_id |-> chain_id]
ChainJsonPath(chain_id, path, error) ==
    [variant |-> "ChainJsonPath", chain_id |-> chain_id, path |-> path, error |-> error]
ChainParseResponse(chain_id, error) ==
    [variant |-> "ChainParseResponse", chain_id |-> chain_id, error |-> error]
ChainIncorrectContentType(chain_id, error) ==
    [variant |-> "ChainIncorrectContentType", chain_id |-> chain_id, error |-> error]
ChainInvalidResult(chain_id, error) ==
    [variant |-> "ChainInvalidResult", chain_id |-> chain_id, error |-> error]
EnvironmentVariable(variable, error) ==
    [variant |-> "EnvironmentVariable", variable |-> variable, error |-> error]
RepositoryError(error) == [variant |-> "Repository", error |-> error]

\* TemplateKey::parse that rejects a key with an empty segment
parse_no_empty_segment(s) ==
    LET segments == split(s)
    IN  CASE \E k \in 1 .. Len(segments) : segments[k] = << >>
                -> Err(InvalidKey(Borrowed(s)))
          [] Len(segments) = 1 -> Ok(Field(Borrowed(segments[1])))
          [] Len(segments) = 2 /\ segments[1] = <<"chains">>
                -> Ok(Chain(Borrowed(segments[2])))
          [] Len(segments) = 2 /\ segments[1] = <<"env">>
                -> Ok(Environment(Borrowed(segments[2])))
          [] OTHER -> Err(InvalidKey(Borrowed(s)))

\* TemplateKey::parse that looks at the first two segments only
parse_first_two_segments(s) ==
    LET segments == split(s)
    IN  CASE Len(segments) = 1 -> Ok(Field(Borrowed(segments[1])))
          [] Len(segments) >= 2 /\ segments[1] = <<"chains">>
                -> Ok(Chain(Borrowed(segments[2])))
          [] Len(segments) >= 2 /\ segments[1] = <<"env">>
                -> Ok(Environment(Borrowed(segments[2])))
          [] OTHER -> Err(InvalidKey(Borrowed(s)))

\* TemplateKey::parse
parse(s) ==
    LET segments == split(s)
    IN  CASE Len(segments) = 1 -> Ok(Field(Borrowed(segments[1])))
          [] Len(segments) = 2 /\ segments[1] = <<"chains">>
                -> Ok(Chain(Borrowed(segments[2])))
          [] Len(segments) = 2 /\ segments[1] = <<"env">>
                -> Ok(Environment(Borrowed(segments[2])))
          [] OTHER -> Err(InvalidKey(Borrowed(s)))

\* TemplateError::into_owned
into_owned(e) ==
    CASE e.variant = "InvalidKey" -> InvalidKey(to_owned(e.key))
      [] e.variant = "FieldUnknown" -> FieldUnknown(to_owned(e.field))
      [] e.variant = "ChainUnknown" -> ChainUnknown(to_owned(e.chain_id))
      [] e.variant = "ChainNoResponse" -> ChainNoResponse(to_owned(e.chain_id))
      [] e.variant = "ChainJsonPath"
            -> ChainJsonPath(to_owned(e.chain_id), to_owned(e.path), e.error)
      [] e.variant = "ChainParseResponse"
            -> ChainParseResponse(to_owned(e.chain_id), e.error)
      [] e.variant = "ChainIncorrectContentType"
            -> ChainParseResponse(to_owned(e.chain_id), e.error)
      [] e.variant = "ChainInvalidResult"
            -> ChainInvalidResult(to_owned(e.chain_id), e.error)
      [] e.variant = "EnvironmentVariable"
            -> EnvironmentVariable(to_owned(e.variable), e.error)
      [] e.variant = "Repository" -> RepositoryError(e.error)

(***************************************************************************)
(* TemplateContext: profile, overrides, chains.  Environment variables.    *)
(***************************************************************************)
\* IndexMap::get
IndexMapGet(map, key) == IF key \in DOMAIN map THEN Some(map[key]) ELSE None

\* Option::or_else
or_else(opt, other) == IF opt.some THEN opt ELSE other

\* Iterator::find on the chain list: the first chain with the given id
\* the lookup of a chain that takes the first chain whatever its id
find_chain_first(chains, chain_id) ==
    IF Len(chains) > 0 THEN Some(chains[1]) ELSE None

\* context.chains.iter().find(|chain| chain.id == chain_id)
find_chain(chains, chain_id) ==
    IF \E i \in 1 .. Len(chains) : chains[i].id = chain_id
    THEN Some(chains[CHOOSE i \in 1 .. Len(chains) :
                        /\ chains[i].id = chain_id
                        /\ \A j \in 1 .. (i - 1) : chains[j].id # chain_id])
    ELSE None

\* a byte of an OsString that is not part of any valid Unicode text
InvalidByte == "\\xFF"

\* std::env::var: the value of the variable if it is set and is valid
\* Unicode, VarError::NotPresent or VarError::NotUnicode otherwise
env_var(environment, variable) ==
    IF variable \notin DOMAIN environment THEN Err("NotPresent")
    ELSE IF \E i \in 1 .. Len(environment[variable]) :
                environment[variable][i] = InvalidByte
    THEN Err("NotUnicode")
    ELSE Ok(environment[variable])

(***************************************************************************)
(* JSON values, their compact text, and JSON paths                         *)
(***************************************************************************)
JsonString(s) == [type |-> "string", s |-> s]
JsonNumber(n) == [type |-> "number", n |-> n]
JsonArray(items) == [type |-> "array", items |-> items]
JsonObject(key, member) == [type |-> "object", key |-> key, member |-> member]

\* the scalar values, and the values one level above them
JsonScalars == {JsonString("s"), JsonNumber("1"), JsonNumber("2")}
JsonValues ==
    JsonScalars
    \cup {JsonArray(<< >>)}
    \cup {JsonArray(<<x>>) : x \in JsonScalars}
    \cup {JsonArray(<<x, y>>) : x, y \in JsonScalars}
    \cup {JsonObject("k", x) : x \in JsonScalars}
    \cup {JsonObject("k", JsonArray(<<x, y>>)) : x, y \in JsonScalars}

\* serde_json::Value::to_string: the compact JSON text
RECURSIVE json_to_string(_)
json_to_string(v) ==
    CASE v.type = "string" -> <<"\"", v.s, "\"">>
      [] v.type = "number" -> <<v.n>>
      [] v.type = "array" ->
            <<"[">>
            \o (IF Len(v.items) = 0 THEN << >>
                ELSE IF Len(v.items) = 1 THEN json_to_string(v.items[1])
                ELSE json_to_string(v.items[1]) \o <<",">> \o json_to_string(v.items[2]))
            \o <<"]">>
      [] v.type = "object" ->
            <<"{", "\"", v.key, "\"", ":">> \o json_to_string(v.member) \o <<"}">>

\* serde_json::from_str: the value whose text this is, if it is JSON text
json_from_str(text) ==
    IF \E v \in JsonValues : json_to_string(v) = text
    THEN Ok(CHOOSE v \in JsonValues : json_to_string(v) = text)
    ELSE Err("not JSON")

\* JsonPath::parse: `$` is the root, `$.k` a member, `$.*` every child
JsonPath_parse(path) ==
    CASE path = <<"$">> -> Ok([selector |-> "root"])
      [] path = <<"$", ".", "*">> -> Ok([selector |-> "wildcard"])
      [] Len(path) = 3 /\ path[1] = "$" /\ path[2] = "." /\ path[3] \notin {"*", ".", "$"}
            -> Ok([selector |-> "member", key |-> path[3]])
      [] OTHER -> Err("malformed path")

\* JsonPath::query: the nodes the path selects
query(path, json) ==
    CASE path.selector = "root" -> <<json>>
      [] path.selector = "member" ->
            IF json.type = "object" /\ json.key = path.key THEN <<json.member>> ELSE << >>
      [] path.selector = "wildcard" ->
            IF json.type = "array" THEN json.items
            ELSE IF json.type = "object" THEN <<json.member>>
            ELSE << >>

\* NodeList::exactly_one
exactly_one(nodes) ==
    IF Len(nodes) = 1 THEN Ok(nodes[1])
    ELSE IF Len(nodes) = 0 THEN Err("Empty") ELSE Err("MoreThanOne")

(***************************************************************************)
(* Repository and stored responses                                         *)
(***************************************************************************)
\* a stored response: its body text and its declared content type
StoredResponse(body, content_type) == [body |-> body, content_type |-> content_type]

\* Response::parse_body: parse the body by its content type
parse_body(response) ==
    IF response.content_type = "json"
    THEN LET parsed == json_from_str(response.body)
         IN  IF parsed.ok THEN Ok([content_type |-> "json", value |-> parsed.value])
             ELSE Err(parsed.error)
    ELSE Ok([content_type |-> response.content_type, value |-> response.body])

\* as_content_type::<Json>
as_content_type_json(parsed_body) ==
    IF parsed_body.content_type = "json" THEN Ok(parsed_body.value)
    ELSE Err("not a JSON body")

\* a record of the repository: one attempt of a recipe and its outcome
StoredRecord(recipe_id, success, response) ==
    [recipe_id |-> recipe_id, success |-> success, response |-> response]

\* Repository::get_last: the most recent attempt of the recipe, if there is
\* one and it succeeded; an error when the store cannot be read
get_last(repo, recipe_id) ==
    IF ~ repo.available THEN Err("repository unavailable")
    ELSE LET attempts == repo.records[recipe_id]
         IN  IF Len(attempts) > 0 /\ attempts[Len(attempts)].success
             THEN Ok(Some(attempts[Len(attempts)]))
             ELSE Ok(None)

\* Repository::add
repository_add(repo, record) ==
    [repo EXCEPT !.records[record.recipe_id] = Append(@, record)]

(***************************************************************************)
(* TemplateSource: one render routine for each variant of TemplateKey      *)
(***************************************************************************)
\* FieldSource::render with the profile consulted before the overrides
FieldSource_render_profile_first(field, context) ==
    LET value == or_else(or_else(None, IndexMapGet(context.profile, field.text)),
                         IndexMapGet(context.overrides, field.text))
    IN  IF value.some THEN Ok(value.value) ELSE Err(FieldUnknown(field))

\* FieldSource::render
FieldSource_render(field, context) ==
    LET value == or_else(or_else(None, IndexMapGet(context.overrides, field.text)),
                         IndexMapGet(context.profile, field.text))
    IN  \* Option::ok_or
        IF value.some THEN Ok(value.value) ELSE Err(FieldUnknown(field))

\* the query that takes the first node when the path selects several
ChainSource_query_first(chain_id, path, parsed_body) ==
    CHOOSE returned \in
        {IF ~ json_value.ok
         THEN Err(ChainIncorrectContentType(chain_id, json_value.error))
         ELSE CHOOSE queried \in
                  {IF Len(nodes) = 0
                   THEN Err(ChainInvalidResult(chain_id, "Empty"))
                   ELSE IF nodes[1].type = "string"
                   THEN Ok(<<nodes[1].s>>)
                   ELSE Ok(json_to_string(nodes[1])) :
                      nodes \in {query(path, json_value.value)}} : TRUE :
            json_value \in {as_content_type_json(parsed_body)}} : TRUE

\* ChainSource::render, from the parsed body on: the content type, the query,
\* and the text of the node found
ChainSource_query(chain_id, path, parsed_body) ==
    CHOOSE returned \in
        {IF ~ json_value.ok
         THEN Err(ChainIncorrectContentType(chain_id, json_value.error))
         ELSE CHOOSE queried \in
                  {IF ~ found_value.ok
                   THEN Err(ChainInvalidResult(chain_id, found_value.error))
                   ELSE IF found_value.value.type = "string"
                   THEN Ok(<<found_value.value.s>>)
                   ELSE Ok(json_to_string(found_value.value)) :
                      found_value \in {exactly_one(query(path, json_value.value))}} : TRUE :
            json_value \in {as_content_type_json(parsed_body)}} : TRUE

\* the extraction that parses the body also when the chain has no path
ChainSource_extract_always_parse(chain_id, chain, record) ==
    CHOOSE returned \in
        {IF chain.path.some /\ ~ JsonPath_parse(chain.path.value).ok
         THEN Err(ChainJsonPath(chain_id, Borrowed(chain.path.value),
                                JsonPath_parse(chain.path.value).error))
         ELSE IF ~ parsed_body.ok
         THEN Err(ChainParseResponse(chain_id, parsed_body.error))
         ELSE IF ~ chain.path.some THEN Ok(record.response.body)
         ELSE ChainSource_query(chain_id, JsonPath_parse(chain.path.value).value,
                                parsed_body.value) :
            parsed_body \in {parse_body(record.response)}} : TRUE

\* the extraction that parses the body of the response before the path
ChainSource_extract_body_first(chain_id, chain, record) ==
    IF chain.path.some
    THEN CHOOSE returned \in
             {IF ~ parsed_body.ok
              THEN Err(ChainParseResponse(chain_id, parsed_body.error))
              ELSE IF ~ path.ok
              THEN Err(ChainJsonPath(chain_id, Borrowed(chain.path.value), path.error))
              ELSE ChainSource_query(chain_id, path.value, parsed_body.value) :
                 path \in {JsonPath_parse(chain.path.value)},
                 parsed_body \in {parse_body(record.response)}} : TRUE
    ELSE Ok(record.response.body)

\* ChainSource::render, from the record on: the optional JSON path
ChainSource_extract(chain_id, chain, record) ==
    IF chain.path.some
    THEN CHOOSE returned \in
             {IF ~ path.ok
              THEN Err(ChainJsonPath(chain_id, Borrowed(chain.path.value), path.error))
              ELSE IF ~ parsed_body.ok
              THEN Err(ChainParseResponse(chain_id, parsed_body.error))
              ELSE ChainSource_query(chain_id, path.value, parsed_body.value) :
                 path \in {JsonPath_parse(chain.path.value)},
                 parsed_body \in {parse_body(record.response)}} : TRUE
    ELSE Ok(record.response.body)

\* the repository read that reports a missing response as an unknown chain
ChainSource_read_unknown_on_none(chain_id, chain, repo) ==
    CHOOSE returned \in
        {IF ~ last.ok THEN Err(RepositoryError(last.error))
         ELSE IF ~ last.value.some THEN Err(ChainUnknown(chain_id))
         ELSE ChainSource_extract(chain_id, chain, last.value.value) :
            last \in {get_last(repo, chain.source)}} : TRUE

\* ChainSource::render, from the chain on: the repository read
ChainSource_read(chain_id, chain, repo) ==
    CHOOSE returned \in
        {IF ~ last.ok THEN Err(RepositoryError(last.error))
         ELSE IF ~ last.value.some THEN Err(ChainNoResponse(chain_id))
         ELSE ChainSource_extract(chain_id, chain, last.value.value) :
            last \in {get_last(repo, chain.source)}} : TRUE

\* ChainSource::render that reads the repository before it looks the chain
\* up, and so reports a failed read also for a chain that is not defined
ChainSource_render_read_first(chain_id, context, repo) ==
    CHOOSE returned \in
        {IF ~ repo.available THEN Err(RepositoryError("repository unavailable"))
         ELSE IF ~ chain.some THEN Err(ChainUnknown(chain_id))
         ELSE ChainSource_read(chain_id, chain.value, repo) :
            chain \in {find_chain(context.chains, chain_id.text)}} : TRUE

\* ChainSource::render
ChainSource_render(chain_id, context, repo) ==
    CHOOSE returned \in
        {IF ~ chain.some THEN Err(ChainUnknown(chain_id))
         ELSE ChainSource_read(chain_id, chain.value, repo) :
            chain \in {find_chain(context.chains, chain_id.text)}} : TRUE

\* EnvironmentSource::render
EnvironmentSource_render(variable, environment) ==
    LET value == env_var(environment, variable.text)
    IN  IF value.ok THEN Ok(value.value)
        ELSE Err(EnvironmentVariable(variable, value.error))

\* the dispatch that lets the overrides and the profile stand in for the
\* process environment
render_value_env_overridable(key, context, repo, environment) ==
    CASE key.variant = "Field" -> FieldSource_render(key.name, context)
      [] key.variant = "Chain" -> ChainSource_render(key.name, context, repo)
      [] key.variant = "Environment" ->
            IF FieldSource_render(key.name, context).ok
            THEN FieldSource_render(key.name, context)
            ELSE EnvironmentSource_render(key.name, environment)

\* TemplateKey::into_value followed by TemplateSource::render
render_value(key, context, repo, environment) ==
    CASE key.variant = "Field" -> FieldSource_render(key.name, context)
      [] key.variant = "Chain" -> ChainSource_render(key.name, context, repo)
      [] key.variant = "Environment" -> EnvironmentSource_render(key.name, environment)

(***************************************************************************)
(* TEMPLATE_REGEX  \{\{\s*([\w\d._-]+)\s*\}\}  and its matches             *)
(***************************************************************************)
\* tokens outside the key class [\w\d._-]: the braces, a blank, punctuation
NonKeyTokens == {"{{", "}}", " ", "!"}

\* the first position at or after p that does not hold a blank
RECURSIVE skip_whitespace(_, _)
skip_whitespace(t, p) ==
    IF p <= Len(t) /\ t[p] = " " THEN skip_whitespace(t, p + 1) ELSE p

\* the first position at or after p that does not hold a key token
RECURSIVE skip_key(_, _)
skip_key(t, p) ==
    IF p <= Len(t) /\ t[p] \notin NonKeyTokens THEN skip_key(t, p + 1) ELSE p

\* the match of the regex that starts at position p, if there is one
match_at(t, p) ==
    LET key_start == skip_whitespace(t, p + 1)
        key_end == skip_key(t, key_start)
        close == skip_whitespace(t, key_end)
    IN  IF /\ p <= Len(t)
           /\ t[p] = "{{"
           /\ key_end > key_start
           /\ close <= Len(t)
           /\ t[close] = "}}"
        THEN Some([start |-> p, end |-> close + 1,
                   key_raw |-> SubSeq(t, key_start, key_end - 1)])
        ELSE None

\* Regex::captures_iter: the non-overlapping matches from position p on,
\* leftmost first
RECURSIVE captures_from(_, _)
captures_from(t, p) ==
    IF p > Len(t) THEN << >>
    ELSE CHOOSE captures \in
             {IF m.some THEN <<m.value>> \o captures_from(t, m.value.end)
                        ELSE captures_from(t, p + 1) :
                 m \in {match_at(t, p)}} : TRUE

\* the matches taken from the last to the first
captures_iter_reversed(t) ==
    LET forward == captures_from(t, 1)
    IN  [i \in 1 .. Len(forward) |-> forward[Len(forward) + 1 - i]]

\* Regex::captures_iter over the whole template
captures_iter(t) == captures_from(t, 1)

(***************************************************************************)
(* State                                                                   *)
(***************************************************************************)
VARIABLES
    now,              \* Utc::now()
    active_requests,  \* UiState::active_requests
    recipes,          \* UiState::recipes
    requests,         \* the started requests not yet handed back, oldest first
    panicked,         \* the main thread has panicked
    last_call,        \* the AppState call the latest step made, if it made one
    repository,       \* the Repository: the stored attempts of every recipe
    render_call,      \* the render_borrow call in progress, if there is one
    fn_call,          \* the latest call of a function of the template engine
    error,            \* UiState::error
    notification,     \* UiState::notification
    selected_pane,    \* UiState::selected_pane
    request_tab,      \* UiState::request_tab
    response_tab,     \* UiState::response_tab
    prompt            \* the PromptModal on screen, if there is one

\* the state of the template engine
template_vars == <<repository, render_call, fn_call>>

\* the fields of UiState that hold popups and selections
popup_vars == <<error, notification, selected_pane, request_tab, response_tab>>

\* the state of the view
view_vars == <<popup_vars, prompt>>

vars == <<now, active_requests, recipes, requests, panicked, last_call,
          repository, render_call, fn_call, error, notification,
          selected_pane, request_tab, response_tab, prompt>>

\* positions of the pending requests
RequestIds == 1 .. Len(requests)

(***************************************************************************)
(* AppState: the request orchestrator                                      *)
(***************************************************************************)
\* UiState::new
UiStateNew(collection) ==
    [error |-> None,
     notification |-> None,
     active_requests |-> HashMapNew,
     selected_pane |-> StatefulSelectNew(PrimaryPane),
     request_tab |-> StatefulSelectNew(RequestTab),
     response_tab |-> StatefulSelectNew(ResponseTab),
     recipes |-> with_items(collection)]

\* reload_collection that carries the request states over to the new UI state
reload_collection_keep_requests(ui_state, collection) ==
    [UiStateNew(collection) EXCEPT !.active_requests = ui_state.active_requests]

\* AppState::reload_collection: self.ui = UiState::new(collection)
reload_collection(ui_state, collection) == UiStateNew(collection)

\* AppState::active_request
active_request(ui) ==
    LET recipe == selected(ui.recipes)
    IN  \* Option::and_then
        IF recipe.some THEN Get(ui.active_requests, recipe.value) ELSE None

\* can_send_request that treats a recipe without a request state as unsendable
can_send_request_needs_entry(ui) ==
    active_request(ui).some /\ ~ is_loading(active_request(ui).value)

\* AppState::can_send_request
can_send_request(ui) ==
    LET request_state == active_request(ui)
        \* Option::map
        loading == IF request_state.some
                   THEN Some(is_loading(request_state.value))
                   ELSE None
    IN  ~ unwrap_or_default(loading)

\* start_request without the check for a request already in progress
start_request_restart(active, recipe_id, t) ==
    Insert(active, recipe_id, Loading(t))

\* start_request that starts only recipes without a request state
start_request_vacant_only(active, recipe_id, t) ==
    IF Get(active, recipe_id).some THEN active
    ELSE Insert(active, recipe_id, Loading(t))

\* start_request that lets the new request take the place of all the others
start_request_exclusive(active, recipe_id, t) ==
    [r \in {recipe_id} |-> Loading(t)]

\* AppState::start_request, with Utc::now() = t
start_request(active, recipe_id, t) ==
    LET state == Loading(t)
        entry == Get(active, recipe_id)
    IN  CASE entry.some /\ is_loading(entry.value) -> active
          [] entry.some /\ ~ is_loading(entry.value) -> Insert(active, recipe_id, state)
          [] ~ entry.some -> Insert(active, recipe_id, state)

\* finish_request that only logs
finish_request_dropped(active, record) == active

\* finish_request without the check for the loading state
finish_request_unchecked(active, record) ==
    Insert(active, record.request.recipe_id, Response(record))

\* finish_request that stores the record under whichever recipe is loading
finish_request_any_loading(active, record) ==
    IF \E r \in DOMAIN active : is_loading(active[r])
    THEN Insert(active, CHOOSE r \in DOMAIN active : is_loading(active[r]),
                Response(record))
    ELSE active

\* AppState::finish_request
finish_request(active, record) ==
    LET recipe_id == record.request.recipe_id
        entry == Get(active, recipe_id)
    IN  IF entry.some /\ is_loading(entry.value)
        THEN Insert(active, recipe_id, Response(record))
        ELSE active

\* fail_request that takes the time of the failure as the start time
fail_request_restamped(active, recipe_id, err, t) ==
    LET entry == Get(active, recipe_id)
    IN  IF entry.some /\ is_loading(entry.value)
        THEN Insert(active, recipe_id, Error(err, t, t))
        ELSE active

\* fail_request that records the error of a recipe without a request state
fail_request_vacant(active, recipe_id, err, t) ==
    LET entry == Get(active, recipe_id)
    IN  IF entry.some
        THEN IF is_loading(entry.value)
             THEN Insert(active, recipe_id, Error(err, start_time_of(entry.value), t))
             ELSE active
        ELSE Insert(active, recipe_id, Error(err, t, t))

\* fail_request that logs the error and leaves the request state as it is
fail_request_logged_only(active, recipe_id, err, t) == active

\* fail_request that records transport errors and only logs the others
fail_request_transport_only(active, recipe_id, err, t) ==
    LET entry == Get(active, recipe_id)
    IN  IF entry.some /\ is_loading(entry.value) /\ err = "transport"
        THEN Insert(active, recipe_id, Error(err, start_time_of(entry.value), t))
        ELSE active

\* AppState::fail_request, with Utc::now() = t
fail_request(active, recipe_id, err, t) ==
    LET entry == Get(active, recipe_id)
    IN  IF entry.some /\ is_loading(entry.value)
        THEN Insert(active, recipe_id, Error(err, start_time_of(entry.value), t))
        ELSE active

\* AppState::error
error_of_state(ui_state) == ui_state.error

\* input_handler that looks at the selected pane only
input_handler_pane_only(ui_state) ==
    PrimaryPane_input_handler(StatefulSelect_selected(ui_state.selected_pane))

\* AppState::input_handler
input_handler(ui_state) ==
    IF error_of_state(ui_state).some
    THEN "ErrorPopup"
    ELSE PrimaryPane_input_handler(StatefulSelect_selected(ui_state.selected_pane))

\* AppState::notify, with Utc::now() = t
notify(ui_state, message, t) ==
    [ui_state EXCEPT !.notification = Some(Notification(message, t))]

\* AppState::notification, with Utc::now() = t: the UiState it leaves and the
\* notification it returns
AppState_notification(ui_state, t) ==
    CHOOSE call \in
        {[ui |-> left, returned |-> left.notification] :
            left \in {IF ui_state.notification.some
                         /\ expired(ui_state.notification.value, t)
                      THEN [ui_state EXCEPT !.notification = None]
                      ELSE ui_state}} : TRUE

\* AppState::set_error
set_error(ui_state, err) == [ui_state EXCEPT !.error = Some(err)]

\* AppState::clear_error
clear_error(ui_state) == [ui_state EXCEPT !.error = None]

(***************************************************************************)
(* HttpEngine                                                              *)
(***************************************************************************)
\* the result slot build_request creates: Arc::new(RwLock::new(None))
new_response_slot == None

(***************************************************************************)
(* TemplateString::render_borrow and TemplateString::render                *)
(***************************************************************************)
\* the locals of render_borrow before its loop: the matches still to
\* visit, the output buffer `new`, `last_match`, and the value returned
render_locals(template) ==
    [template |-> template, captures |-> captures_iter(template), i |-> 1,
     new |-> << >>, last_match |-> 1, result |-> None]

\* one turn of the loop of render_borrow that, after the last match, returns
\* what it has without the text that follows the match
render_step_no_tail(st, context, repo, environment) ==
    IF st.i > Len(st.captures)
    THEN [st EXCEPT !.result = Some(Ok(st.new))]
    ELSE CHOOSE next \in
             {IF ~ key.ok
              THEN [st EXCEPT !.new = new, !.result = Some(Err(key.error))]
              ELSE CHOOSE resolved \in
                       {IF ~ rendered_value.ok
                        THEN [st EXCEPT !.new = new,
                                        !.result = Some(Err(rendered_value.error))]
                        ELSE [st EXCEPT !.new = new \o rendered_value.value,
                                        !.last_match = st.captures[st.i].end,
                                        !.i = st.i + 1] :
                           rendered_value \in
                               {render_value(key.value, context, repo, environment)}} : TRUE :
                 new \in {st.new \o SubSeq(st.template, st.last_match,
                                           st.captures[st.i].start - 1)},
                 key \in {parse(st.captures[st.i].key_raw)}} : TRUE

\* one turn of the loop of render_borrow that leaves a placeholder it cannot
\* resolve out of the output and goes on with the next one
render_step_skip_failed(st, context, repo, environment) ==
    IF st.i > Len(st.captures)
    THEN [st EXCEPT !.new = st.new \o SubSeq(st.template, st.last_match,
                                              Len(st.template)),
                    !.result = Some(Ok(st.new \o SubSeq(st.template, st.last_match,
                                                        Len(st.template))))]
    ELSE CHOOSE next \in
             {IF resolved.ok
              THEN [st EXCEPT !.new = new \o resolved.value,
                              !.last_match = st.captures[st.i].end,
                              !.i = st.i + 1]
              ELSE IF st.i < Len(st.captures)
              THEN [st EXCEPT !.new = new,
                              !.last_match = st.captures[st.i].end,
                              !.i = st.i + 1]
              ELSE [st EXCEPT !.new = new, !.result = Some(Err(resolved.error))] :
                 new \in {st.new \o SubSeq(st.template, st.last_match,
                                           st.captures[st.i].start - 1)},
                 resolved \in
                     {IF parse(st.captures[st.i].key_raw).ok
                      THEN render_value(parse(st.captures[st.i].key_raw).value,
                                        context, repo, environment)
                      ELSE parse(st.captures[st.i].key_raw)}} : TRUE

\* one turn of the loop of render_borrow (or, after the last match, the
\* statements that follow the loop), reading the repository as it is now
render_step(st, context, repo, environment) ==
    IF st.i > Len(st.captures)
    THEN CHOOSE next \in
             {[st EXCEPT !.new = new, !.result = Some(Ok(new))] :
                 new \in {st.new \o SubSeq(st.template, st.last_match,
                                           Len(st.template))}} : TRUE
    ELSE CHOOSE next \in
             {IF ~ key.ok
              THEN [st EXCEPT !.new = new, !.result = Some(Err(key.error))]
              ELSE CHOOSE resolved \in
                       {IF ~ rendered_value.ok
                        THEN [st EXCEPT !.new = new,
                                        !.result = Some(Err(rendered_value.error))]
                        ELSE [st EXCEPT !.new = new \o rendered_value.value,
                                        !.last_match = st.captures[st.i].end,
                                        !.i = st.i + 1] :
                           rendered_value \in
                               {render_value(key.value, context, repo, environment)}} : TRUE :
                 new \in {st.new \o SubSeq(st.template, st.last_match,
                                           st.captures[st.i].start - 1)},
                 key \in {parse(st.captures[st.i].key_raw)}} : TRUE

\* the loop run to its end with no write to the repository meanwhile
RECURSIVE render_loop(_, _, _, _)
render_loop(st, context, repo, environment) ==
    IF st.result.some THEN st
    ELSE CHOOSE end \in
             {render_loop(next, context, repo, environment) :
                 next \in {render_step(st, context, repo, environment)}} : TRUE

\* TemplateString::render_borrow
render_borrow(template, context, repo, environment) ==
    CHOOSE returned \in
        {render_loop(st, context, repo, environment).result.value :
            st \in {render_locals(template)}} : TRUE

\* TemplateString::render: the error made owned and given its context
render(template, context, repo, environment) ==
    CHOOSE returned \in
        {IF rendered.ok THEN rendered
         ELSE Err([context |-> "Error rendering template",
                   about |-> template,
                   source |-> into_owned(rendered.error)]) :
            rendered \in {render_borrow(template, context, repo, environment)}} : TRUE

(***************************************************************************)
(* HttpEngine::build_request                                               *)
(***************************************************************************)
\* a recipe: its templates
RequestRecipe(method, url, headers, body) ==
    [method |-> method, url |-> url, headers |-> headers, body |-> body]

\* the templated parts of a recipe
recipe_parts(recipe) ==
    {recipe.method, recipe.url}
    \cup {recipe.headers[i].value : i \in 1 .. Len(recipe.headers)}
    \cup (IF recipe.body.some THEN {recipe.body.value} ELSE {})

\* a text of HTTP token characters (a method or a header name): not empty,
\* no brace and no blank
is_token(text) ==
    /\ Len(text) > 0
    /\ \A i \in 1 .. Len(text) : text[i] \notin {"{{", "}}", " "}

\* str::parse::<Method>
Method_parse(text) == IF is_token(text) THEN Ok(text) ELSE Err("invalid HTTP method")

\* str::parse::<HeaderName>
HeaderName_parse(text) == IF is_token(text) THEN Ok(text) ELSE Err("invalid HTTP header name")

\* str::parse::<HeaderValue>: a line break is not allowed in a value
HeaderValue_parse(text) ==
    IF \E i \in 1 .. Len(text) : text[i] = "\n"
    THEN Err("invalid HTTP header value")
    ELSE Ok(text)

\* the renders build_request makes: every templated part of the recipe,
\* rendered from the same values
render_parts(recipe, context, repo, environment) ==
    [part \in recipe_parts(recipe) |-> render(part, context, repo, environment)]

\* the header loop of build_request from header i on
RECURSIVE build_headers(_, _, _, _)
build_headers(recipe_headers, i, headers, rendered) ==
    IF i > Len(recipe_headers) THEN Ok(headers)
    ELSE CHOOSE returned \in
             {IF ~ name.ok
              THEN Err([context |-> "Error parsing header name",
                        about |-> recipe_headers[i].key, source |-> name.error])
              ELSE IF ~ value.ok
              THEN Err([context |-> "Error rendering value for header",
                        about |-> recipe_headers[i].key, source |-> value.error])
              ELSE IF ~ HeaderValue_parse(value.value).ok
              THEN Err([context |-> "Error parsing header value",
                        about |-> recipe_headers[i].key,
                        source |-> HeaderValue_parse(value.value).error])
              ELSE build_headers(recipe_headers, i + 1,
                                 Append(headers, [key |-> name.value,
                                                  value |-> value.value]),
                                 rendered) :
                 name \in {HeaderName_parse(recipe_headers[i].key)},
                 value \in {rendered[recipe_headers[i].value]}} : TRUE

\* build_request that sends a part it cannot render as its template text
build_request_lenient(recipe, context, repo, environment) ==
    CHOOSE returned \in
        {Ok([method |-> IF rendered[recipe.method].ok
                        THEN rendered[recipe.method].value ELSE recipe.method,
             url |-> IF rendered[recipe.url].ok
                     THEN rendered[recipe.url].value ELSE recipe.url,
             headers |-> recipe.headers,
             body |-> recipe.body,
             response |-> new_response_slot]) :
            rendered \in {render_parts(recipe, context, repo, environment)}} : TRUE

\* HttpEngine::build_request once its templates are rendered: the first
\* failure in the order method, url, headers, body is returned
build_request_from(recipe, rendered) ==
    CHOOSE returned \in
        {IF ~ rendered[recipe.method].ok THEN rendered[recipe.method]
         ELSE IF ~ method.ok THEN method
         ELSE IF ~ rendered[recipe.url].ok THEN rendered[recipe.url]
         ELSE IF ~ headers.ok THEN headers
         ELSE IF recipe.body.some /\ ~ rendered[recipe.body.value].ok
         THEN rendered[recipe.body.value]
         ELSE Ok([method |-> method.value,
                  url |-> rendered[recipe.url].value,
                  headers |-> headers.value,
                  body |-> IF recipe.body.some
                           THEN Some(rendered[recipe.body.value].value)
                           ELSE None,
                  response |-> new_response_slot]) :
            method \in {IF rendered[recipe.method].ok
                        THEN Method_parse(rendered[recipe.method].value)
                        ELSE rendered[recipe.method]},
            headers \in {build_headers(recipe.headers, 1, << >>, rendered)}} : TRUE

\* HttpEngine::build_request
build_request(recipe, context, repo, environment) ==
    CHOOSE returned \in
        {build_request_from(recipe, rendered) :
            rendered \in {render_parts(recipe, context, repo, environment)}} : TRUE

\* a background task that ends without storing its result
write_response_dropped(slot, result) == slot

\* the background task's write: *response_box.write().await = Some(result)
write_response(slot, result) == Some(result)

\* the Repository with nothing stored
RepositoryNew == [available |-> TRUE, records |-> [r \in RecipeIds |-> << >>]]

\* no render call is in progress
NoRender == [pc |-> "idle"]

\* no function of the template engine was called
NoFn == [op |-> "none", turn |-> FALSE]

\* no prompt modal is on screen
NoPrompt == [pc |-> "none"]

\* the latest step called no operation of AppState
NoCall == [op |-> "none", recipe_id |-> "", prior |-> None, arg |-> None]

(***************************************************************************)
(* Init: AppState::new with the initial collection, nothing dispatched     *)
(***************************************************************************)
Init ==
    /\ now = 0
    /\ active_requests = UiStateNew(InitialCollection).active_requests
    /\ recipes = UiStateNew(InitialCollection).recipes
    /\ requests = << >>
    /\ panicked = FALSE
    /\ last_call = NoCall
    /\ repository = RepositoryNew
    /\ render_call = NoRender
    /\ fn_call = NoFn
    /\ error = UiStateNew(InitialCollection).error
    /\ notification = UiStateNew(InitialCollection).notification
    /\ selected_pane = UiStateNew(InitialCollection).selected_pane
    /\ request_tab = UiStateNew(InitialCollection).request_tab
    /\ response_tab = UiStateNew(InitialCollection).response_tab
    /\ prompt = NoPrompt

\* the UiState held by AppState::ui
ui == [error |-> error,
       notification |-> notification,
       active_requests |-> active_requests,
       selected_pane |-> selected_pane,
       request_tab |-> request_tab,
       response_tab |-> response_tab,
       recipes |-> recipes]

\* the record the control loop makes of completed request q
record_of(q) ==
    RequestRecord([recipe_id |-> requests[q].recipe_id, stale |-> requests[q].stale])

\* the error the control loop reports for failed request q
error_of(q) == IF requests[q].pc = "render_failed" THEN "render" ELSE "transport"

\* the call op(recipe_id, arg) made on the active-request map `active`
Call(op, active, recipe_id, arg) ==
    [op |-> op, recipe_id |-> recipe_id, prior |-> Get(active, recipe_id), arg |-> arg]

\* the pending requests without the one at position q
Remove(q) == [i \in 1 .. (Len(requests) - 1) |->
                 IF i < q THEN requests[i] ELSE requests[i + 1]]

(***************************************************************************)
(* Actions                                                                 *)
(***************************************************************************)
\* the wall clock advances
Tick ==
    /\ ~ panicked
    /\ now < MaxTime
    /\ now' = now + 1
    /\ last_call' = NoCall
    /\ UNCHANGED <<active_requests, recipes, requests, panicked>>
    /\ UNCHANGED <<template_vars, view_vars>>

\* a direct call of AppState::start_request(recipe_id)
StartRequest(recipe_id) ==
    /\ ~ panicked
    /\ active_requests' = start_request(active_requests, recipe_id, now)
    /\ last_call' = Call("start_request", active_requests, recipe_id, None)
    /\ UNCHANGED <<now, recipes, requests, panicked>>
    /\ UNCHANGED <<template_vars, view_vars>>

\* Message::HttpSendRequest: the control loop checks can_send_request, marks
\* the selected recipe as loading and spawns the task that builds and sends
\* its request
HandleHttpSendRequest ==
    /\ ~ panicked
    /\ Len(requests) < MaxPending
    /\ selected(recipes).some
    /\ can_send_request(ui)
    /\ LET recipe_id == selected(recipes).value
       IN  /\ active_requests' = start_request(active_requests, recipe_id, now)
           /\ last_call' = Call("start_request", active_requests, recipe_id, None)
           /\ requests' = Append(requests,
                  [recipe_id |-> recipe_id, stale |-> FALSE,
                   pc |-> "started", tasks |-> 0, response |-> None,
                   observed |-> None])
    /\ UNCHANGED <<now, recipes, panicked>>
    /\ UNCHANGED <<template_vars, view_vars>>

\* HttpEngine::build_request succeeds: the Request exists, its slot is empty
BuildRequestOk(q) ==
    /\ ~ panicked
    /\ requests[q].pc = "started"
    /\ requests' = [requests EXCEPT ![q].pc = "built", ![q].response = new_response_slot]
    /\ last_call' = NoCall
    /\ UNCHANGED <<now, active_requests, recipes, panicked>>
    /\ UNCHANGED <<template_vars, view_vars>>

\* HttpEngine::build_request fails on a render error: no Request is made
BuildRequestErr(q) ==
    /\ ~ panicked
    /\ requests[q].pc = "started"
    /\ requests' = [requests EXCEPT ![q].pc = "render_failed"]
    /\ last_call' = NoCall
    /\ UNCHANGED <<now, active_requests, recipes, panicked>>
    /\ UNCHANGED <<template_vars, view_vars>>

\* HttpEngine::send_request(&request): spawn a background task that holds a
\* clone of the request's slot.  The function takes any Request, whether or
\* not it was sent before.
SendRequest(q) ==
    /\ ~ panicked
    /\ requests[q].pc \in {"built", "sent", "done"}
    /\ requests[q].tasks < MaxTasks
    /\ requests' = [requests EXCEPT
           ![q].pc = IF requests[q].pc = "built" THEN "sent" ELSE requests[q].pc,
           ![q].tasks = requests[q].tasks + 1]
    /\ last_call' = NoCall
    /\ UNCHANGED <<now, active_requests, recipes, panicked>>
    /\ UNCHANGED <<template_vars, view_vars>>

\* the task spawned by the HttpSendRequest handler passes the request it has
\* just built to send_request, once
DispatchRequest(q) ==
    /\ requests[q].pc = "built"
    /\ SendRequest(q)

\* a background task: execute, buffer the body, store the result
TaskComplete(q, result) ==
    /\ ~ panicked
    /\ requests[q].tasks > 0
    /\ requests' = [requests EXCEPT
           ![q].pc = "done",
           ![q].tasks = requests[q].tasks - 1,
           ![q].response = write_response(requests[q].response, result)]
    /\ last_call' = NoCall
    /\ UNCHANGED <<now, active_requests, recipes, panicked>>
    /\ UNCHANGED <<template_vars, view_vars>>

\* the orchestrator's part of Message::HttpResponse{record}: hand the record
\* to finish_request
DeliverHttpResponse(q) ==
    /\ ~ panicked
    /\ requests[q].pc = "done"
    /\ requests[q].response = Some("Ok")
    /\ active_requests' = finish_request(active_requests, record_of(q))
    /\ last_call' = Call("finish_request", active_requests, requests[q].recipe_id, record_of(q))
    /\ requests' = Remove(q)
    /\ UNCHANGED <<now, recipes, panicked>>

\* Message::HttpResponse{record}, the repository left out of the picture
HandleHttpResponse(q) ==
    /\ DeliverHttpResponse(q)
    /\ UNCHANGED <<template_vars, view_vars>>

\* the orchestrator's part of Message::HttpError{recipe_id, error}: hand the
\* error to fail_request
DeliverHttpError(q) ==
    /\ ~ panicked
    /\ \/ requests[q].pc = "done" /\ requests[q].response = Some("Err")
       \/ requests[q].pc = "render_failed"
    /\ active_requests' = fail_request(active_requests, requests[q].recipe_id, error_of(q), now)
    /\ last_call' = Call("fail_request", active_requests, requests[q].recipe_id, error_of(q))
    /\ requests' = Remove(q)
    /\ UNCHANGED <<now, recipes, panicked>>

\* Message::HttpError{recipe_id, error}, the repository left out of the
\* picture
HandleHttpError(q) ==
    /\ DeliverHttpError(q)
    /\ UNCHANGED <<template_vars, view_vars>>

\* AppState::reload_collection
ReloadCollection(collection) ==
    /\ ~ panicked
    /\ \E reloaded \in {reload_collection(ui, collection)} :
           /\ active_requests' = reloaded.active_requests
           /\ recipes' = reloaded.recipes
           /\ error' = reloaded.error
           /\ notification' = reloaded.notification
           /\ selected_pane' = reloaded.selected_pane
           /\ request_tab' = reloaded.request_tab
           /\ response_tab' = reloaded.response_tab
    /\ requests' = [q \in RequestIds |-> [requests[q] EXCEPT !.stale = TRUE]]
    /\ last_call' = [NoCall EXCEPT !.op = "reload_collection",
                                   !.prior = Some(active_requests)]
    /\ UNCHANGED <<now, panicked, prompt>>
    /\ UNCHANGED template_vars

\* StatefulList::next on the recipe list
RecipesNext ==
    /\ ~ panicked
    /\ IF recipes.state.some /\ Len(recipes.items) = 0
       THEN \* (i + 1) % 0: division by zero
            /\ panicked' = TRUE
            /\ UNCHANGED recipes
       ELSE /\ recipes' = [recipes EXCEPT !.state =
                  IF recipes.state.some
                  THEN Some((recipes.state.value + 1) % Len(recipes.items))
                  ELSE Some(0)]
            /\ UNCHANGED panicked
    /\ last_call' = NoCall
    /\ UNCHANGED <<now, active_requests, requests>>
    /\ UNCHANGED <<template_vars, view_vars>>

\* StatefulList::previous on the recipe list (usize arithmetic with overflow
\* checks, as in the dev profile: 0 - 1 panics)
RecipesPrevious ==
    /\ ~ panicked
    /\ IF recipes.state.some /\ recipes.state.value = 0 /\ Len(recipes.items) = 0
       THEN /\ panicked' = TRUE
            /\ UNCHANGED recipes
       ELSE /\ recipes' = [recipes EXCEPT !.state =
                  IF recipes.state.some
                  THEN IF recipes.state.value = 0
                       THEN Some(Len(recipes.items) - 1)
                       ELSE Some(recipes.state.value - 1)
                  ELSE Some(0)]
            /\ UNCHANGED panicked
    /\ last_call' = NoCall
    /\ UNCHANGED <<now, active_requests, requests>>
    /\ UNCHANGED <<template_vars, view_vars>>

\* a direct call of AppState::finish_request(record)
FinishRequest(record) ==
    /\ ~ panicked
    /\ active_requests' = finish_request(active_requests, record)
    /\ last_call' = Call("finish_request", active_requests,
                         record.request.recipe_id, record)
    /\ UNCHANGED <<now, recipes, requests, panicked>>
    /\ UNCHANGED <<template_vars, view_vars>>

\* a direct call of AppState::fail_request(recipe_id, err)
FailRequest(recipe_id, err) ==
    /\ ~ panicked
    /\ active_requests' = fail_request(active_requests, recipe_id, err, now)
    /\ last_call' = Call("fail_request", active_requests, recipe_id, err)
    /\ UNCHANGED <<now, recipes, requests, panicked>>
    /\ UNCHANGED <<template_vars, view_vars>>

\* a direct call of HttpEngine::build_request(recipe, ...) that succeeds
BuildRequest(recipe_id) ==
    /\ ~ panicked
    /\ Len(requests) < MaxPending
    /\ requests' = Append(requests,
           [recipe_id |-> recipe_id, stale |-> FALSE,
            pc |-> "built", tasks |-> 0, response |-> new_response_slot,
            observed |-> None])
    /\ last_call' = NoCall
    /\ UNCHANGED <<now, active_requests, recipes, panicked>>
    /\ UNCHANGED <<template_vars, view_vars>>

\* the control loop reads the result slot of a request it holds, without
\* blocking, and sees its value
PollResponse(q) ==
    /\ ~ panicked
    /\ requests[q].pc \in {"built", "sent", "done"}
    /\ requests[q].observed # Some(requests[q].response)
    /\ requests' = [requests EXCEPT ![q].observed = Some(requests[q].response)]
    /\ last_call' = NoCall
    /\ UNCHANGED <<now, active_requests, recipes, panicked>>
    /\ UNCHANGED <<template_vars, view_vars>>

\* the records and errors handed to the direct calls
Records == {RequestRecord([recipe_id |-> r, stale |-> st]) :
                r \in RecipeIds, st \in BOOLEAN}
Errors == {"render", "transport"}

(***************************************************************************)
(* Spec: the control loop.  Requests are started by the HttpSendRequest    *)
(* handler, built and sent in the background, and their completions are    *)
(* handed back to finish_request / fail_request.                           *)
(***************************************************************************)
Next ==
    \/ Tick
    \/ HandleHttpSendRequest
    \/ \E q \in RequestIds : BuildRequestOk(q)
    \/ \E q \in RequestIds : BuildRequestErr(q)
    \/ \E q \in RequestIds : DispatchRequest(q)
    \/ \E q \in RequestIds, result \in TransportResults : TaskComplete(q, result)
    \/ \E q \in RequestIds : HandleHttpResponse(q)
    \/ \E q \in RequestIds : HandleHttpError(q)
    \/ \E collection \in Collections : ReloadCollection(collection)
    \/ RecipesNext
    \/ RecipesPrevious

Spec == Init /\ [][Next]_vars

(***************************************************************************)
(* SpecFair: the control loop while its background work goes on.  tokio    *)
(* schedules every spawned task, the transport call returns, and the main  *)
(* loop takes every message off its queue, so the next step of a pending   *)
(* request (build, send, completion, delivery of its message) is           *)
(* eventually taken.  User input (send, reload, list moves) may stop.      *)
(* The wall clock stands still: no step of the loop depends on it.         *)
(***************************************************************************)
\* the next step of the pending request at position q
Progress(q) ==
    /\ q \in RequestIds
    /\ \/ BuildRequestOk(q)
       \/ BuildRequestErr(q)
       \/ DispatchRequest(q)
       \/ \E result \in TransportResults : TaskComplete(q, result)
       \/ HandleHttpResponse(q)
       \/ HandleHttpError(q)

NextFair ==
    \/ HandleHttpSendRequest
    \/ \E q \in RequestIds : Progress(q)
    \/ ReloadCollection(InitialCollection)
    \/ RecipesNext
    \/ RecipesPrevious

SpecFair ==
    /\ Init
    /\ [][NextFair]_vars
    /\ \A q \in 1 .. MaxPending : WF_vars(Progress(q))

(***************************************************************************)
(* SpecCalls: the operations of AppState called directly, in any order and *)
(* with any argument.                                                      *)
(***************************************************************************)
NextCalls ==
    \/ Tick
    \/ \E recipe_id \in RecipeIds : StartRequest(recipe_id)
    \/ \E record \in Records : FinishRequest(record)
    \/ \E recipe_id \in RecipeIds, err \in Errors : FailRequest(recipe_id, err)
    \/ \E collection \in Collections : ReloadCollection(collection)
    \/ RecipesNext
    \/ RecipesPrevious

SpecCalls == Init /\ [][NextCalls]_vars

(***************************************************************************)
(* SpecHttp: the HttpEngine alone.  Requests are built, send_request is    *)
(* called on them any number of times, each background task stores its     *)
(* result, and the control loop polls the result slots.                    *)
(***************************************************************************)
NextHttp ==
    \/ \E recipe_id \in RecipeIds : BuildRequest(recipe_id)
    \/ \E q \in RequestIds : SendRequest(q)
    \/ \E q \in RequestIds, result \in TransportResults : TaskComplete(q, result)
    \/ \E q \in RequestIds : PollResponse(q)

SpecHttp == Init /\ [][NextHttp]_vars

(***************************************************************************)
(* SpecHttpFair: the HttpEngine while the control loop goes on (requests   *)
(* built and sent, collection reloads, reads or none).  tokio schedules    *)
(* every spawned task and the transport call returns, so a task that can   *)
(* store its result eventually does.                                       *)
(***************************************************************************)
NextHttpFair ==
    \/ \E recipe_id \in RecipeIds : BuildRequest(recipe_id)
    \/ \E q \in RequestIds : DispatchRequest(q)
    \/ \E q \in RequestIds, result \in TransportResults : TaskComplete(q, result)
    \/ \E q \in RequestIds : PollResponse(q)
    \/ \E collection \in Collections : ReloadCollection(collection)

TaskRuns(q) ==
    /\ q \in RequestIds
    /\ \E result \in TransportResults : TaskComplete(q, result)

SpecHttpFair ==
    /\ Init
    /\ [][NextHttpFair]_vars
    /\ \A q \in 1 .. MaxPending : WF_vars(TaskRuns(q))

(***************************************************************************)
(* Inputs of the template engine                                           *)
(***************************************************************************)
\* the process environment: TEST is set, nothing else is
ProcessEnvironment == [v \in {<<"TEST">>} |-> <<"test!">>]

\* the call op(args) of a function of the template engine and what it
\* returned; `turn` changes with every call
FnCall(op, args, result) ==
    [op |-> op, args |-> args, result |-> result, turn |-> ~ fn_call.turn]

\* the latest step called function op
Called(op) == fn_call'.turn # fn_call.turn /\ fn_call'.op = op

\* the render context of the recipes built: field a is in the profile, chain
\* c1 takes the body of the latest response of recipe r1
BuildContext ==
    [profile |-> [f \in {<<"a">>} |-> <<"1">>],
     overrides |-> [f \in {} |-> << >>],
     chains |-> <<[id |-> <<"c1">>, source |-> "r1", path |-> None]>>]

\* templates of recipe parts: plain text, a known field, an unknown field, a
\* key that does not parse, a chain
PartTemplates ==
    {<<"x">>,
     <<"x", "{{", "a", "}}">>,
     <<"{{", "b", "}}", "x">>,
     <<"{{", "a", ".", "b", "}}">>,
     <<"{{", "chains", ".", "c1", "}}">>}

\* the recipes handed to build_request
BuildRecipes ==
    {RequestRecipe(method, url, headers, body) :
        method \in {<<"GET">>, <<"{{", "b", "}}">>},
        url \in PartTemplates,
        headers \in {<< >>,
                     <<[key |-> <<"h">>, value |-> <<"{{", "a", "}}">>]>>,
                     <<[key |-> <<"h">>, value |-> <<"{{", "a", "}}">>],
                       [key |-> <<"g">>, value |-> <<"{{", "b", "}}">>]>>},
        body \in {None, Some(<<"{{", "a", "}}">>), Some(<<"{{", "env", ".", "HOME", "}}">>)}}

\* a direct call of HttpEngine::build_request(recipe, context); the Request it
\* returns, if it returns one, is kept so that it can be sent
BuildRequestCall(recipe) ==
    /\ ~ panicked
    /\ Len(requests) < MaxPending
    /\ \E result \in {build_request(recipe, BuildContext, repository, ProcessEnvironment)} :
           /\ fn_call' = FnCall("build_request", <<recipe>>, result)
           /\ requests' =
                  IF result.ok
                  THEN Append(requests,
                           [recipe_id |-> "r1", stale |-> FALSE, pc |-> "built",
                            tasks |-> 0, response |-> result.value.response,
                            observed |-> None])
                  ELSE requests
    /\ last_call' = NoCall
    /\ UNCHANGED <<now, active_requests, recipes, panicked, repository, render_call,
                   view_vars>>

(***************************************************************************)
(* SpecBuild: recipes are built by build_request, and the requests it      *)
(* returns are sent and completed.                                         *)
(***************************************************************************)
NextBuild ==
    \/ \E recipe \in BuildRecipes : BuildRequestCall(recipe)
    \/ \E q \in RequestIds : DispatchRequest(q)
    \/ \E q \in RequestIds, result \in TransportResults : TaskComplete(q, result)

SpecBuild == Init /\ [][NextBuild]_vars

(***************************************************************************)
(* A render in progress.  render_borrow is asynchronous: every placeholder *)
(* is resolved behind an await, so the control loop may store a record     *)
(* between two placeholders of the same render.  render_call holds the     *)
(* locals of the call (st), and the trace of its resolutions.              *)
(***************************************************************************)
MaxRecords == 2

\* the render context of the renders in progress: field a is in the profile,
\* chain c2 takes the body of the latest response of recipe r2 and chain c1
\* that of recipe r1
ChainContext ==
    [profile |-> [f \in {<<"a">>} |-> <<"1">>],
     overrides |-> [f \in {} |-> << >>],
     chains |-> <<[id |-> <<"c2">>, source |-> "r2", path |-> None],
                  [id |-> <<"c1">>, source |-> "r1", path |-> None]>>]

\* the templates rendered: a chain once, a chain twice, a field and a chain,
\* an unknown field and a chain
RenderTemplates ==
    {<<"{{", "chains", ".", "c1", "}}">>,
     <<"{{", "chains", ".", "c1", "}}", "-", "{{", "chains", ".", "c1", "}}">>,
     <<"{{", "a", "}}", "{{", "chains", ".", "c1", "}}">>,
     <<"{{", "b", "}}", "{{", "chains", ".", "c1", "}}">>}

\* the body of the n-th response of a recipe
BodyOf(n) == <<ToString(n)>>

\* TemplateString::render_borrow is called: the captures are found
RenderStart(template) ==
    /\ ~ panicked
    /\ render_call.pc = "idle"
    /\ render_call' = [pc |-> "loop", st |-> render_locals(template), trace |-> << >>]
    /\ UNCHANGED <<view_vars, now, active_requests, recipes, requests, panicked, last_call,
                   repository, fn_call>>

\* the loop reaches a capture: its resolution starts, and awaits
RenderBegin ==
    /\ ~ panicked
    /\ render_call.pc = "loop"
    /\ render_call.st.i <= Len(render_call.st.captures)
    /\ render_call' =
           [render_call EXCEPT
               !.pc = "await",
               !.trace = Append(@, [event |-> "start", capture |-> render_call.st.i])]
    /\ UNCHANGED <<view_vars, now, active_requests, recipes, requests, panicked, last_call,
                   repository, fn_call>>

\* the output of the render in progress up to the placeholder being resolved,
\* followed by value
OutputWith(value) ==
    render_call.st.new
        \o SubSeq(render_call.st.template, render_call.st.last_match,
                  render_call.st.captures[render_call.st.i].start - 1)
        \o value

\* the number of records of every recipe: the version of the repository
Version(repo) == [r \in RecipeIds |-> Len(repo.records[r])]

\* the end of a resolution that leaves the locals as next: the trace tells the
\* key, the value it was given if it was given one, and the version of the
\* repository at that moment
Resumed(next) ==
    [pc |-> IF next.result.some THEN "done" ELSE "loop",
     st |-> next,
     trace |-> Append(render_call.trace,
                   [event |-> "end", capture |-> render_call.st.i,
                    key_raw |-> render_call.st.captures[render_call.st.i].key_raw,
                    value |-> IF next.result.some THEN None
                              ELSE Some(SubSeq(next.new, Len(OutputWith(<< >>)) + 1,
                                               Len(next.new))),
                    version |-> Version(repository)])]

\* the end of a resolution in a render that keeps the value of every key it
\* has resolved and uses it again when the key comes back
RenderResume_cached ==
    /\ ~ panicked
    /\ render_call.pc = "await"
    /\ LET key_raw == render_call.st.captures[render_call.st.i].key_raw
           cached == {k \in 1 .. Len(render_call.trace) :
                         /\ render_call.trace[k].event = "end"
                         /\ render_call.trace[k].key_raw = key_raw
                         /\ render_call.trace[k].value.some}
       IN  \E next \in
               {IF cached # {}
                THEN [render_call.st EXCEPT
                         !.new = OutputWith(
                                     render_call.trace[CHOOSE k \in cached : TRUE].value.value),
                         !.last_match = render_call.st.captures[render_call.st.i].end,
                         !.i = render_call.st.i + 1]
                ELSE render_step(render_call.st, ChainContext, repository,
                                 ProcessEnvironment)} :
               render_call' = Resumed(next)
    /\ UNCHANGED <<view_vars, now, active_requests, recipes, requests, panicked, last_call,
                   repository, fn_call>>

\* the resolution of the capture ends: the key is parsed and rendered from
\* the repository as it is now, and the loop goes on or returns the error
RenderResume ==
    /\ ~ panicked
    /\ render_call.pc = "await"
    /\ \E next \in {render_step(render_call.st, ChainContext, repository,
                                ProcessEnvironment)} :
           render_call' = Resumed(next)
    /\ UNCHANGED <<view_vars, now, active_requests, recipes, requests, panicked, last_call,
                   repository, fn_call>>

\* no capture is left: the rest of the template is added and the text returned
RenderFinish ==
    /\ ~ panicked
    /\ render_call.pc = "loop"
    /\ render_call.st.i > Len(render_call.st.captures)
    /\ render_call' =
           [render_call EXCEPT
               !.pc = "done",
               !.st = render_step(render_call.st, ChainContext, repository,
                                  ProcessEnvironment)]
    /\ UNCHANGED <<view_vars, now, active_requests, recipes, requests, panicked, last_call,
                   repository, fn_call>>

\* the caller takes the result
RenderReturn ==
    /\ ~ panicked
    /\ render_call.pc = "done"
    /\ render_call' = NoRender
    /\ UNCHANGED <<view_vars, now, active_requests, recipes, requests, panicked, last_call,
                   repository, fn_call>>

\* Message::HttpResponse{record}: the record is stored in the repository and
\* handed to finish_request
StoreHttpResponse(q) ==
    /\ DeliverHttpResponse(q)
    /\ Len(repository.records[requests[q].recipe_id]) < MaxRecords
    /\ repository' =
           repository_add(repository,
               StoredRecord(requests[q].recipe_id, TRUE,
                   StoredResponse(
                       BodyOf(Len(repository.records[requests[q].recipe_id]) + 1),
                       "json")))
    /\ UNCHANGED <<render_call, fn_call, view_vars>>

\* Message::HttpError{recipe_id, error} of a request that was sent: the failed
\* attempt is stored in the repository and the error handed to fail_request
StoreHttpError(q) ==
    /\ DeliverHttpError(q)
    /\ Len(repository.records[requests[q].recipe_id]) < MaxRecords
    /\ repository' =
           repository_add(repository,
               StoredRecord(requests[q].recipe_id, FALSE, None))
    /\ UNCHANGED <<render_call, fn_call, view_vars>>

(***************************************************************************)
(* SpecChain: the control loop sends requests and stores their records     *)
(* while templates are rendered.                                           *)
(***************************************************************************)
NextChain ==
    \/ HandleHttpSendRequest
    \/ \E q \in RequestIds : BuildRequestOk(q)
    \/ \E q \in RequestIds : DispatchRequest(q)
    \/ \E q \in RequestIds, result \in TransportResults : TaskComplete(q, result)
    \/ \E q \in RequestIds : StoreHttpResponse(q)
    \/ \E q \in RequestIds : StoreHttpError(q)
    \/ ReloadCollection(InitialCollection)
    \/ \E template \in RenderTemplates : RenderStart(template)
    \/ RenderBegin
    \/ RenderResume
    \/ RenderFinish
    \/ RenderReturn

SpecChain == Init /\ [][NextChain]_vars

(***************************************************************************)
(* SpecRender: templates of several placeholders are rendered while        *)
(* attempts are added to the repository.                                   *)
(***************************************************************************)
\* the templates rendered: a placeholder that can fail (an unknown field, an
\* invalid key, an unset variable, an unknown chain, a chain that may have
\* no response) followed by placeholders that read the repository or the
\* environment, or that fail as well
StopTemplates ==
    {<<"{{", "b", "}}", "{{", "chains", ".", "c1", "}}">>,
     <<"{{", "chains", ".", "c1", "}}", "{{", "env", ".", "TEST", "}}">>,
     <<"{{", "a", "}}", "x", "{{", "chains", ".", "zz", "}}",
       "{{", "chains", ".", "c1", "}}">>,
     <<"{{", "a", ".", "b", "}}", "{{", "b", "}}">>,
     <<"{{", "env", ".", "HOME", "}}", "{{", "chains", ".", "c2", "}}">>,
     <<"{{", "chains", ".", "c1", "}}", "y", "{{", "b", "}}">>}

\* Repository::add of an attempt of the recipe, successful or not
RepositoryAdd(recipe_id, success) ==
    /\ ~ panicked
    /\ Len(repository.records[recipe_id]) < MaxRecords
    /\ repository' =
           repository_add(repository,
               StoredRecord(recipe_id, success,
                   IF success
                   THEN StoredResponse(
                            BodyOf(Len(repository.records[recipe_id]) + 1), "json")
                   ELSE None))
    /\ UNCHANGED <<view_vars, now, active_requests, recipes, requests, panicked, last_call,
                   render_call, fn_call>>

NextRender ==
    \/ \E template \in StopTemplates : RenderStart(template)
    \/ RenderBegin
    \/ RenderResume
    \/ RenderFinish
    \/ RenderReturn
    \/ \E recipe_id \in RecipeIds, success \in BOOLEAN :
           RepositoryAdd(recipe_id, success)

SpecRender == Init /\ [][NextRender]_vars

(***************************************************************************)
(* SpecFn: one function of the template engine is called, once, on         *)
(* arguments drawn from the sets below.                                    *)
(***************************************************************************)
\* borrowed errors, one or more of every variant of TemplateError
BorrowedErrors ==
    {InvalidKey(Borrowed(key)) : key \in {<<"a", ".", "b">>, <<".">>}}
    \cup {FieldUnknown(Borrowed(<<"b">>))}
    \cup {ChainUnknown(Borrowed(chain_id)) : chain_id \in {<<"c1">>, <<"zz">>}}
    \cup {ChainNoResponse(Borrowed(chain_id)) : chain_id \in {<<"c1">>, <<"zz">>}}
    \cup {ChainJsonPath(Borrowed(<<"cx">>), Borrowed(<<"$", "$">>), "malformed path")}
    \cup {ChainParseResponse(Borrowed(<<"cp">>), cause) : cause \in {"not JSON", "io"}}
    \cup {ChainIncorrectContentType(Borrowed(<<"cp">>), "not a JSON body")}
    \cup {ChainInvalidResult(Borrowed(<<"cw">>), cause) : cause \in {"Empty", "MoreThanOne"}}
    \cup {EnvironmentVariable(Borrowed(<<"HOME">>), "NotPresent")}
    \cup {RepositoryError("repository unavailable")}

\* the maps from some of the names a, b to a value
FieldMaps ==
    UNION {[names -> {<<"1">>, <<"2">>}] : names \in SUBSET {<<"a">>, <<"b">>}}

\* the render contexts of the field lookups: any profile with any overrides
FieldContexts ==
    {[profile |-> profile, overrides |-> overrides, chains |-> << >>] :
        profile \in FieldMaps, overrides \in FieldMaps}

\* the render context of the renders called here: chains of recipe r1 without
\* a path, with a member path, with a wildcard path, with a malformed path
FnContext ==
    [profile |-> [f \in {<<"a">>} |-> <<"1">>],
     overrides |-> [f \in {} |-> << >>],
     chains |-> <<[id |-> <<"c1">>, source |-> "r1", path |-> None],
                  [id |-> <<"cp">>, source |-> "r1", path |-> Some(<<"$", ".", "k">>)],
                  [id |-> <<"cw">>, source |-> "r1", path |-> Some(<<"$", ".", "*">>)],
                  [id |-> <<"cx">>, source |-> "r1", path |-> Some(<<"$", "$">>)]>>]

\* the repositories read: one that cannot be read, an empty one, and ones
\* whose latest attempt of r1 failed, or brought an object, an array of two,
\* text that is not JSON, or a body that is not declared as JSON
FnRepositories ==
    {[RepositoryNew EXCEPT !.available = FALSE], RepositoryNew,
     repository_add(RepositoryNew, StoredRecord("r1", FALSE, None))}
    \cup {repository_add(RepositoryNew, StoredRecord("r1", TRUE, response)) :
             response \in
                 {StoredResponse(json_to_string(JsonObject("k", JsonString("s"))), "json"),
                  StoredResponse(json_to_string(JsonArray(<<JsonNumber("1"), JsonNumber("2")>>)),
                                 "json"),
                  StoredResponse(<<"<html>">>, "json"),
                  StoredResponse(<<"text">>, "text")}}

\* the keys of the placeholders rendered here
FnKeys ==
    {<<"a">>, <<"b">>, <<"a", ".", "b">>,
     <<"chains", ".", "c1">>, <<"chains", ".", "cp">>, <<"chains", ".", "cw">>,
     <<"chains", ".", "cx">>, <<"chains", ".", "zz">>,
     <<"env", ".", "TEST">>, <<"env", ".", "HOME">>}

\* the templates rendered here: text and one placeholder, or a known field
\* and then a placeholder
FnTemplates ==
    {before \o <<"{{", " ">> \o key \o <<"}}">> :
        before \in {<<"x">>, <<"{{", "a", "}}">>}, key \in FnKeys}

\* a call of TemplateKey::parse
ParseCall(s) ==
    /\ fn_call = NoFn
    /\ fn_call' = FnCall("parse", <<s>>, parse(s))
    /\ UNCHANGED <<view_vars, now, active_requests, recipes, requests, panicked, last_call,
                   repository, render_call>>

\* a call of TemplateError::into_owned
IntoOwnedCall(template_error) ==
    /\ fn_call = NoFn
    /\ fn_call' = FnCall("into_owned", <<template_error>>, into_owned(template_error))
    /\ UNCHANGED <<view_vars, now, active_requests, recipes, requests, panicked, last_call,
                   repository, render_call>>

\* a call of FieldSource::render
FieldRenderCall(field, context) ==
    /\ fn_call = NoFn
    /\ fn_call' = FnCall("FieldSource_render", <<field, context>>,
                         FieldSource_render(field, context))
    /\ UNCHANGED <<view_vars, now, active_requests, recipes, requests, panicked, last_call,
                   repository, render_call>>

\* a call of TemplateString::render_borrow that no write to the repository
\* interrupts
RenderBorrowCall(template, repo) ==
    /\ fn_call = NoFn
    /\ \E result \in {render_borrow(template, FnContext, repo, ProcessEnvironment)} :
           fn_call' = FnCall("render_borrow", <<template, repo>>, result)
    /\ UNCHANGED <<view_vars, now, active_requests, recipes, requests, panicked, last_call,
                   repository, render_call>>

\* the JSON-paths of the chains resolved here: none, the root, a member that
\* the bodies may have, one they do not have, every child, a malformed path
FnPaths ==
    {None, Some(<<"$">>), Some(<<"$", ".", "k">>), Some(<<"$", ".", "j">>),
     Some(<<"$", ".", "*">>), Some(<<"$", ".">>)}

\* the render contexts of the chains resolved here: no chain at all, or chain
\* c2 of recipe r2 and then chain c1 of recipe r1 with one of the paths
ChainContexts ==
    {[profile |-> [f \in {} |-> << >>], overrides |-> [f \in {} |-> << >>],
      chains |-> << >>]}
    \cup {[profile |-> [f \in {} |-> << >>], overrides |-> [f \in {} |-> << >>],
           chains |-> <<[id |-> <<"c2">>, source |-> "r2", path |-> None],
                        [id |-> <<"c1">>, source |-> "r1", path |-> path]>>] :
             path \in FnPaths}

\* the responses stored: every JSON value as a JSON body, text that is not
\* JSON declared as JSON, and a body that is not declared as JSON
FnResponses ==
    {StoredResponse(json_to_string(v), "json") : v \in JsonValues}
    \cup {StoredResponse(<<"not", " ", "json!">>, "json"),
          StoredResponse(<<"1">>, "text")}

\* attempts of recipe r1 before the latest one: a failure, or a success
EarlierAttempts ==
    {StoredRecord("r1", FALSE, None),
     StoredRecord("r1", TRUE, StoredResponse(<<"old">>, "json"))}

\* the histories of recipe r1: no attempt, or up to MaxRecords attempts of
\* which the latest failed or brought one of the responses
RECURSIVE HistoriesOf(_)
HistoriesOf(n) ==
    IF n = 0 THEN {<< >>}
    ELSE HistoriesOf(n - 1)
         \cup {<<first>> \o rest :
                  first \in EarlierAttempts,
                  rest \in {h \in HistoriesOf(n - 1) : Len(h) = n - 1}}

ChainRepositories ==
    {[RepositoryNew EXCEPT !.available = FALSE], RepositoryNew}
    \cup {[RepositoryNew EXCEPT !.records["r1"] = Append(earlier, latest)] :
             earlier \in HistoriesOf(MaxRecords - 1),
             latest \in {StoredRecord("r1", FALSE, None)}
                        \cup {StoredRecord("r1", TRUE, response) :
                                 response \in FnResponses}}

\* the process environments: TEST set as in the tests, nothing set, two
\* set, TEST set to bytes that are not Unicode text
Environments ==
    {ProcessEnvironment,
     [v \in {} |-> << >>],
     [v \in {<<"TEST">>, <<"HOME">>} |-> IF v = <<"TEST">> THEN <<"t">> ELSE <<"h">>],
     [v \in {<<"TEST">>} |-> <<"t", InvalidByte>>]}

\* the render contexts of the environment keys: those of the fields, those
\* of the chains, and one whose profile and overrides have an entry named as
\* a variable is
EnvironmentContexts ==
    FieldContexts \cup ChainContexts
    \cup {[profile |-> [f \in {<<"TEST">>} |-> <<"p">>],
           overrides |-> [f \in {<<"TEST">>, <<"HOME">>} |-> <<"o">>],
           chains |-> << >>]}

\* a call of ChainSource::render
ChainRenderCall(chain_id, context, repo) ==
    /\ fn_call = NoFn
    /\ \E result \in {ChainSource_render(chain_id, context, repo)} :
           fn_call' = FnCall("ChainSource_render", <<chain_id, context, repo>>, result)
    /\ UNCHANGED <<view_vars, now, active_requests, recipes, requests, panicked, last_call,
                   repository, render_call>>

\* a call of TemplateKey::into_value().render(context) on an environment key
EnvironmentRenderCall(key, context, repo, environment) ==
    /\ fn_call = NoFn
    /\ \E result \in {render_value(key, context, repo, environment)} :
           fn_call' = FnCall("EnvironmentSource_render",
                             <<key, context, repo, environment>>, result)
    /\ UNCHANGED <<view_vars, now, active_requests, recipes, requests, panicked, last_call,
                   repository, render_call>>

\* most pieces a template rendered here is made of
MaxPieces == 3

\* the pieces: text, a blank, a lone opening, a lone closing, an opening and
\* closing with no key, placeholders of the known field a (bare and with
\* blanks) and of the unknown field b, and two placeholders around text
TemplatePieces ==
    {<<"x">>, <<" ">>, <<"{{">>, <<"}}">>, <<"{{", " ", "}}">>,
     <<"{{", "a", "}}">>, <<"{{", " ", "a", " ", "}}">>, <<"{{", "b", "}}">>,
     <<"{{", "a", "}}", "x", "{{", " ", "a", "}}">>}

\* the templates made of at most n pieces
RECURSIVE TemplatesOf(_)
TemplatesOf(n) ==
    IF n = 0 THEN {<< >>}
    ELSE TemplatesOf(n - 1)
         \cup {piece \o rest :
                  piece \in TemplatePieces,
                  rest \in TemplatesOf(n - 1)}

PieceTemplates == TemplatesOf(MaxPieces)

NextFn ==
    \/ \E s \in KeyTexts : ParseCall(s)
    \/ \E template_error \in BorrowedErrors : IntoOwnedCall(template_error)
    \/ \E field \in {Borrowed(<<"a">>), Borrowed(<<"b">>)}, context \in FieldContexts :
           FieldRenderCall(field, context)
    \/ \E template \in FnTemplates, repo \in FnRepositories :
           RenderBorrowCall(template, repo)
    \/ \E template \in PieceTemplates : RenderBorrowCall(template, RepositoryNew)
    \/ \E chain_id \in {Borrowed(<<"c1">>), Borrowed(<<"c2">>), Borrowed(<<"zz">>)},
          context \in ChainContexts, repo \in ChainRepositories :
           ChainRenderCall(chain_id, context, repo)
    \/ \E key \in {Environment(Borrowed(<<"TEST">>)), Environment(Borrowed(<<"HOME">>))},
          context \in EnvironmentContexts,
          repo \in {RepositoryNew, [RepositoryNew EXCEPT !.available = FALSE]},
          environment \in Environments :
           EnvironmentRenderCall(key, context, repo, environment)

SpecFn == Init /\ [][NextFn]_vars

(***************************************************************************)
(* SpecUi: the selections and the error popup of UiState.  The panes and   *)
(* tabs are cycled, errors are stored and cleared, and the collection is   *)
(* reloaded, in any order.                                                 *)
(***************************************************************************)
\* the StatefulSelect fields of UiState
SelectNames == {"selected_pane", "request_tab", "response_tab"}

\* the StatefulSelect field of that name in a UiState
SelectOf(ui_state, which) ==
    CASE which = "selected_pane" -> ui_state.selected_pane
      [] which = "request_tab" -> ui_state.request_tab
      [] which = "response_tab" -> ui_state.response_tab

\* the UiState with the StatefulSelect field of that name replaced
WithSelect(ui_state, which, select) ==
    CASE which = "selected_pane" -> [ui_state EXCEPT !.selected_pane = select]
      [] which = "request_tab" -> [ui_state EXCEPT !.request_tab = select]
      [] which = "response_tab" -> [ui_state EXCEPT !.response_tab = select]

\* AppState::ui becomes next_ui
UiBecomes(next_ui) ==
    /\ error' = next_ui.error
    /\ notification' = next_ui.notification
    /\ active_requests' = next_ui.active_requests
    /\ selected_pane' = next_ui.selected_pane
    /\ request_tab' = next_ui.request_tab
    /\ response_tab' = next_ui.response_tab
    /\ recipes' = next_ui.recipes

\* the call op on the field or object `target`, which was `before`; the call
\* made by the step before it is kept with it
ViewCall(op, target, before) ==
    [op |-> op, recipe_id |-> target, prior |-> Some(before),
     arg |-> Some([op |-> last_call.op, recipe_id |-> last_call.recipe_id,
                   prior |-> last_call.prior])]

\* StatefulSelect::next on a field of UiState
SelectNext(which) ==
    /\ UiBecomes(WithSelect(ui, which, StatefulSelect_next(SelectOf(ui, which))))
    /\ last_call' = ViewCall("next", which, SelectOf(ui, which))
    /\ UNCHANGED <<now, requests, panicked, prompt>>
    /\ UNCHANGED template_vars

\* StatefulSelect::previous on a field of UiState
SelectPrevious(which) ==
    /\ UiBecomes(WithSelect(ui, which, StatefulSelect_previous(SelectOf(ui, which))))
    /\ last_call' = ViewCall("previous", which, SelectOf(ui, which))
    /\ UNCHANGED <<now, requests, panicked, prompt>>
    /\ UNCHANGED template_vars

\* AppState::set_error(err)
SetError(err) ==
    /\ UiBecomes(set_error(ui, err))
    /\ last_call' = ViewCall("set_error", "error", ui)
    /\ UNCHANGED <<now, requests, panicked, prompt>>
    /\ UNCHANGED template_vars

\* AppState::clear_error
ClearError ==
    /\ UiBecomes(clear_error(ui))
    /\ last_call' = ViewCall("clear_error", "error", ui)
    /\ UNCHANGED <<now, requests, panicked, prompt>>
    /\ UNCHANGED template_vars

NextUi ==
    \/ \E which \in SelectNames : SelectNext(which)
    \/ \E which \in SelectNames : SelectPrevious(which)
    \/ \E err \in Errors : SetError(err)
    \/ ClearError
    \/ ReloadCollection(InitialCollection)

SpecUi == Init /\ [][NextUi]_vars

(***************************************************************************)
(* SpecNotify: notifications are set and asked for while time passes, and  *)
(* the collection is reloaded.  The clock counts milliseconds.             *)
(***************************************************************************)
\* last value of the clock
MaxClock == 10000
\* the times that pass between two calls, in milliseconds
ElapseSteps == {2500, 4999, 5000}
\* the messages shown
Messages == {"m1", "m2"}

\* time passes
Elapse(ms) ==
    /\ now + ms <= MaxClock
    /\ now' = now + ms
    /\ last_call' = NoCall
    /\ UNCHANGED <<active_requests, recipes, requests, panicked>>
    /\ UNCHANGED <<template_vars, view_vars>>

\* AppState::notify(message)
Notify(message) ==
    /\ UiBecomes(notify(ui, message, now))
    /\ last_call' = [op |-> "notify", recipe_id |-> "notification",
                     prior |-> Some(notification), arg |-> Some(message)]
    /\ UNCHANGED <<now, requests, panicked, prompt>>
    /\ UNCHANGED template_vars

\* AppState::notification()
GetNotification ==
    /\ \E call \in {AppState_notification(ui, now)} :
           /\ UiBecomes(call.ui)
           /\ last_call' = [op |-> "notification", recipe_id |-> "notification",
                            prior |-> Some(notification), arg |-> call.returned]
    /\ UNCHANGED <<now, requests, panicked, prompt>>
    /\ UNCHANGED template_vars

NextNotify ==
    \/ \E ms \in ElapseSteps : Elapse(ms)
    \/ \E message \in Messages : Notify(message)
    \/ GetNotification
    \/ ReloadCollection(InitialCollection)

SpecNotify == Init /\ [][NextNotify]_vars

(***************************************************************************)
(* SpecPrompt: a prompt modal is opened, its text box is typed into and    *)
(* then submitted or cancelled, and the modal is closed.                   *)
(***************************************************************************)
\* longest text held by the text box
MaxText == 3
\* the characters typed
TypedChars == {"a", "b"}
\* the prompts shown: with or without a default value, sensitive or not
Prompts ==
    {[message |-> <<"m">>, default |-> default, sensitive |-> sensitive] :
        default \in {None, Some(<<"d">>)}, sensitive \in BOOLEAN}

\* PromptModal::new: the submit flag is unset and the text box holds the
\* default value of the prompt
PromptModalNew(p) ==
    [title |-> p.message,
     submit |-> FALSE,
     text_box |-> [sensitive |-> p.sensitive,
                   text |-> IF p.default.some THEN p.default.value ELSE << >>]]

\* the on_submit callback given to the text box: submit_cell.set(true)
on_submit(modal) == [modal EXCEPT !.submit = TRUE]

\* on_close that responds with the text whether or not it was submitted
on_close_always(modal) == <<modal.text_box.text>>

\* PromptModal::on_close: what is sent on the channel of the prompt
on_close(modal) == IF modal.submit THEN <<modal.text_box.text>> ELSE << >>

\* a Prompt arrives: the modal is built and shown, its channel is fresh
PromptOpen(p) ==
    /\ prompt.pc \in {"none", "closed"}
    /\ prompt' = [pc |-> "open", modal |-> PromptModalNew(p), sent |-> << >>,
                  events |-> 0, ended_by |-> "none"]
    /\ UNCHANGED <<now, active_requests, recipes, requests, panicked, last_call>>
    /\ UNCHANGED <<template_vars, popup_vars>>

\* a character is typed into the text box
TextBoxType(c) ==
    /\ prompt.pc = "open"
    /\ prompt.events = 0
    /\ Len(prompt.modal.text_box.text) < MaxText
    /\ prompt' = [prompt EXCEPT !.modal.text_box.text = Append(@, c)]
    /\ UNCHANGED <<now, active_requests, recipes, requests, panicked, last_call>>
    /\ UNCHANGED <<template_vars, popup_vars>>

\* the text box is submitted: on_submit sets the flag and pushes CloseModal
TextBoxSubmit ==
    /\ prompt.pc = "open"
    /\ prompt.events = 0
    /\ prompt' = [prompt EXCEPT !.modal = on_submit(@),
                                !.events = @ + 1,
                                !.ended_by = "submit"]
    /\ UNCHANGED <<now, active_requests, recipes, requests, panicked, last_call>>
    /\ UNCHANGED <<template_vars, popup_vars>>

\* the text box is cancelled: on_cancel pushes CloseModal
TextBoxCancel ==
    /\ prompt.pc = "open"
    /\ prompt.events = 0
    /\ prompt' = [prompt EXCEPT !.events = @ + 1, !.ended_by = "cancel"]
    /\ UNCHANGED <<now, active_requests, recipes, requests, panicked, last_call>>
    /\ UNCHANGED <<template_vars, popup_vars>>

\* Event::CloseModal is handled: the modal is taken off the screen and its
\* on_close is called, which consumes it
CloseModal ==
    /\ prompt.pc = "open"
    /\ prompt.events > 0
    /\ prompt' = [prompt EXCEPT !.pc = "closed",
                                !.events = @ - 1,
                                !.sent = @ \o on_close(prompt.modal)]
    /\ UNCHANGED <<now, active_requests, recipes, requests, panicked, last_call>>
    /\ UNCHANGED <<template_vars, popup_vars>>

NextPrompt ==
    \/ \E p \in Prompts : PromptOpen(p)
    \/ \E c \in TypedChars : TextBoxType(c)
    \/ TextBoxSubmit
    \/ TextBoxCancel
    \/ CloseModal

SpecPrompt == Init /\ [][NextPrompt]_vars

(***************************************************************************)
(* Properties                                                              *)
(***************************************************************************)
\* the kind of state recipe r has in the active-request map `active`
Kind(active, r) == IF r \in DOMAIN active THEN active[r].kind ELSE "None"

\* the latest step left the state of every recipe but r as it was
OthersUnchanged(r) ==
    \A x \in RecipeIds \ {r} : Get(active_requests', x) = Get(active_requests, x)

\* the requests of recipe r that send_request has dispatched and whose
\* completion has not been handed back
InFlight(r) ==
    {q \in RequestIds : requests[q].recipe_id = r /\ requests[q].pc \in {"sent", "done"}}

\* C1: in every reachable state each recipe has at most one entry in the
\* active-request map and at most one dispatched request still in flight.
C1_AtMostOneInFlight ==
    \A r \in RecipeIds :
        /\ Cardinality({k \in DOMAIN active_requests : k = r}) <= 1
        /\ Cardinality(InFlight(r)) <= 1

\* C2: a completion handed back for a request that was started before a
\* collection reload reset the recipe's state never changes the
\* active-request map.
C2_StaleCompletionDropped ==
    [][\A q \in RequestIds :
          ( /\ requests[q].stale
            /\ requests' = Remove(q)
            /\ last_call'.op \in {"finish_request", "fail_request"}
            /\ last_call'.recipe_id = requests[q].recipe_id )
          => active_requests' = active_requests]_vars

\* C3: start_request for a recipe whose state is Loading changes nothing:
\* the entry keeps its start_time and no other entry changes.
C3_StartRejectedWhileLoading ==
    [][( /\ last_call'.op = "start_request"
         /\ Kind(active_requests, last_call'.recipe_id) = "Loading" )
       => active_requests' = active_requests]_vars

\* C3 witness: start_request was just called, at a later time, for a recipe
\* that was Loading, and its entry still has the original start_time.
C3_Witness ==
    /\ last_call.op = "start_request"
    /\ last_call.prior.some
    /\ last_call.prior.value.kind = "Loading"
    /\ last_call.prior.value.start_time < now
    /\ Get(active_requests, last_call.recipe_id) = last_call.prior

\* C4: start_request for a recipe with no entry, or with a Response or Error
\* entry, sets the entry to Loading with start_time = now.
C4_StartEntersLoading ==
    [][( /\ last_call'.op = "start_request"
         /\ Kind(active_requests, last_call'.recipe_id) \in {"None", "Response", "Error"} )
       => /\ Get(active_requests', last_call'.recipe_id) =
                 Some([kind |-> "Loading", start_time |-> now])
          /\ OthersUnchanged(last_call'.recipe_id)]_vars

\* C4 witness: start_request has just replaced an Error by Loading.
C4_Witness ==
    /\ last_call.op = "start_request"
    /\ last_call.prior.some
    /\ last_call.prior.value.kind = "Error"
    /\ last_call.prior.value.end_time < now
    /\ Kind(active_requests, last_call.recipe_id) = "Loading"
    /\ active_requests[last_call.recipe_id].start_time = now

\* C5: finish_request(record) for a recipe whose state is Loading replaces
\* that state by Response(record).
C5_FinishStoresResponse ==
    [][( /\ last_call'.op = "finish_request"
         /\ Kind(active_requests, last_call'.recipe_id) = "Loading" )
       => /\ last_call'.arg.request.recipe_id = last_call'.recipe_id
          /\ Get(active_requests', last_call'.recipe_id) =
                 Some([kind |-> "Response", record |-> last_call'.arg])
          /\ OthersUnchanged(last_call'.recipe_id)]_vars

\* C5 witness: finish_request has just replaced Loading by Response while
\* another recipe is Loading.
C5_Witness ==
    /\ last_call.op = "finish_request"
    /\ last_call.prior.some
    /\ last_call.prior.value.kind = "Loading"
    /\ Kind(active_requests, last_call.recipe_id) = "Response"
    /\ \E r \in RecipeIds \ {last_call.recipe_id} : Kind(active_requests, r) = "Loading"

\* C6: finish_request and fail_request for a recipe whose state is not
\* Loading leave the whole active-request map unchanged and create no entry.
C6_CompletionIgnoredUnlessLoading ==
    [][( /\ last_call'.op \in {"finish_request", "fail_request"}
         /\ Kind(active_requests, last_call'.recipe_id) # "Loading" )
       => /\ active_requests' = active_requests
          /\ DOMAIN active_requests' = DOMAIN active_requests]_vars

\* C6 witness: fail_request was just called for a recipe that has no entry,
\* while the other recipe holds a Response.
C6_Witness ==
    /\ last_call.op = "fail_request"
    /\ ~ last_call.prior.some
    /\ last_call.recipe_id \notin DOMAIN active_requests
    /\ \E r \in DOMAIN active_requests : active_requests[r].kind = "Response"

\* C7: fail_request for a recipe whose state is Loading replaces it by Error
\* with the start_time of that Loading state and end_time = now.
C7_FailKeepsStartTime ==
    [][( /\ last_call'.op = "fail_request"
         /\ Kind(active_requests, last_call'.recipe_id) = "Loading" )
       => /\ Get(active_requests', last_call'.recipe_id) =
                 Some([kind |-> "Error", error |-> last_call'.arg,
                       start_time |-> active_requests[last_call'.recipe_id].start_time,
                       end_time |-> now])
          /\ OthersUnchanged(last_call'.recipe_id)]_vars

\* C7 witness: fail_request has just failed a request that was started at an
\* earlier time.
C7_Witness ==
    /\ last_call.op = "fail_request"
    /\ last_call.prior.some
    /\ last_call.prior.value.kind = "Loading"
    /\ Kind(active_requests, last_call.recipe_id) = "Error"
    /\ active_requests[last_call.recipe_id].start_time < now
    /\ active_requests[last_call.recipe_id].end_time = now

\* the UiState with recipe r selected
UiSelecting(r) ==
    [active_requests |-> active_requests,
     recipes |-> [state |-> Some(0), items |-> <<r>>]]

\* C8: in every reachable state can_send is false exactly when the recipe's
\* state entry is Loading, for the selected recipe and for any recipe were it
\* selected; with no recipe selected nothing is Loading and can_send is true.
C8_CanSendIffNotLoading ==
    /\ can_send_request(ui) =
           ~ ( /\ selected(recipes).some
               /\ Kind(active_requests, selected(recipes).value) = "Loading" )
    /\ \A r \in RecipeIds :
           can_send_request(UiSelecting(r)) = (Kind(active_requests, r) # "Loading")

\* C8 witness: the selected recipe is Loading and cannot be sent while the
\* other recipe holds a finished request and could be sent.
C8_Witness ==
    /\ selected(recipes).some
    /\ Kind(active_requests, selected(recipes).value) = "Loading"
    /\ ~ can_send_request(ui)
    /\ \E r \in RecipeIds :
           /\ Kind(active_requests, r) \in {"Response", "Error"}
           /\ can_send_request(UiSelecting(r))

\* the change of recipe r's state in the latest step is one of the four
\* transitions of the request state machine, made by the named operation
StateMachineStep(r) ==
    LET before == Kind(active_requests, r)
        after == Kind(active_requests', r)
    IN  /\ last_call'.recipe_id = r
        /\ \/ before = "None" /\ after = "Loading" /\ last_call'.op = "start_request"
           \/ before = "Loading" /\ after = "Response" /\ last_call'.op = "finish_request"
           \/ before = "Loading" /\ after = "Error" /\ last_call'.op = "fail_request"
           \/ /\ before \in {"Response", "Error"}
              /\ after = "Loading"
              /\ last_call'.op = "start_request"

\* C9 as stated: a recipe's state changes only by none->Loading, Loading->
\* Response, Loading->Error and Response|Error->Loading.
C9_OnlyFourTransitions ==
    [][\A r \in RecipeIds :
          Get(active_requests', r) # Get(active_requests, r) => StateMachineStep(r)]_vars

\* C9 amended: a recipe's state changes only by those four transitions or by
\* reload_collection, which removes the entry of every recipe.
C9_FourTransitionsOrReload ==
    [][\A r \in RecipeIds :
          Get(active_requests', r) # Get(active_requests, r)
          => \/ StateMachineStep(r)
             \/ /\ last_call'.op = "reload_collection"
                /\ active_requests' = HashMapNew]_vars

\* C9 witness: reload_collection has just removed a Response and a Loading
\* entry.
C9_Witness ==
    /\ last_call.op = "reload_collection"
    /\ active_requests = HashMapNew
    /\ \E r1, r2 \in DOMAIN last_call.prior.value :
           /\ last_call.prior.value[r1].kind = "Response"
           /\ last_call.prior.value[r2].kind = "Loading"

\* C10: a request's result slot is empty when build_request returns, is
\* changed only by the write of a background task of the request, goes from
\* empty to filled and is never changed once filled, and a read by the
\* control loop sees the slot's value and never a different value after a
\* filled one, for any number of send_request calls and reads.
C10_SlotWrittenOnce ==
    /\ [](\A q \in RequestIds :
             (requests[q].pc = "built" /\ requests[q].tasks = 0)
             => requests[q].response = None)
    /\ [][\A q \in RequestIds :
             /\ requests'[q].response # requests[q].response
                => /\ requests[q].tasks > 0
                   /\ requests'[q].tasks = requests[q].tasks - 1
                   /\ requests[q].response = None
                   /\ requests'[q].response.some
             /\ requests[q].response.some
                => requests'[q].response = requests[q].response
             /\ requests'[q].observed # requests[q].observed
                => /\ requests'[q].observed = Some(requests[q].response)
                   /\ requests'[q].response = requests[q].response
             /\ (requests[q].observed.some /\ requests[q].observed.value.some)
                => requests'[q].observed = requests[q].observed]_vars

\* C11: every request dispatched by send_request eventually has its result
\* slot filled, whatever else happens meanwhile (other requests built and
\* sent, collection reloads, reads of the slot or none).
C11_DispatchedEventuallyFilled ==
    \A q \in 1 .. MaxPending :
        [](  (q \in RequestIds /\ requests[q].tasks > 0)
             => <>(q \in RequestIds /\ requests[q].response.some))

\* C11 witness: the slot of a request was filled although the collection was
\* reloaded and the control loop never read the slot, while another request
\* is still running.
C11_Witness ==
    \E q1, q2 \in RequestIds :
        /\ requests[q1].stale
        /\ requests[q1].tasks = 0
        /\ requests[q1].response.some
        /\ requests[q1].observed = None
        /\ requests[q2].tasks > 0
        /\ requests[q2].response = None

\* C12: when a templated part of the recipe (method, URL, a header value,
\* the body) fails to render, build_request returns an error, makes no
\* Request, and nothing is handed to the transport.
C12_RenderFailureBuildsNothing ==
    [][(/\ Called("build_request")
        /\ \E part \in recipe_parts(fn_call'.args[1]) :
               ~ render(part, BuildContext, repository, ProcessEnvironment).ok)
       => /\ ~ fn_call'.result.ok
          /\ requests' = requests]_vars

\* C12 witness: the last part of a recipe, its body, failed to render while
\* an earlier request was being sent; build_request returned the error.
C12_Witness ==
    /\ fn_call.op = "build_request"
    /\ fn_call.args[1].body.some
    /\ \A part \in recipe_parts(fn_call.args[1]) \ {fn_call.args[1].body.value} :
           render(part, BuildContext, repository, ProcessEnvironment).ok
    /\ ~ render(fn_call.args[1].body.value, BuildContext, repository,
                ProcessEnvironment).ok
    /\ ~ fn_call.result.ok
    /\ Len(requests) = 1
    /\ requests[1].tasks = 1

\* C13: a failure delivered by fail_request to a Loading recipe leaves the
\* recipe in Error with can_send true for it; a start_request on a recipe in
\* Error is accepted and enters Loading; and the control loop starts a
\* request only in a step that calls start_request and sends each request
\* once, so a failed request is never sent again by itself.
C13_FailureLeavesRecipeSendable ==
    [][/\ (/\ last_call'.op = "fail_request"
           /\ last_call'.prior.some
           /\ is_loading(last_call'.prior.value))
          => /\ Kind(active_requests', last_call'.recipe_id) = "Error"
             /\ can_send_request([active_requests |-> active_requests',
                                  recipes |-> with_items(<<last_call'.recipe_id>>)])
       /\ (/\ last_call'.op = "start_request"
           /\ last_call'.prior.some
           /\ last_call'.prior.value.kind = "Error")
          => active_requests'[last_call'.recipe_id] = Loading(now)
       /\ Len(requests') > Len(requests)
          => /\ last_call'.op = "start_request"
             /\ ~ (last_call'.prior.some /\ is_loading(last_call'.prior.value))
             /\ requests'[Len(requests')].recipe_id = last_call'.recipe_id
       /\ Len(requests') = Len(requests)
          => \A q \in RequestIds :
                 requests'[q].tasks > requests[q].tasks
                 => requests[q].pc = "built" /\ requests[q].tasks = 0]_vars

\* C13 witness: a recipe whose request failed in the transport has been
\* started again and is Loading, with its new request pending.
C13_Witness ==
    /\ last_call.op = "start_request"
    /\ last_call.prior.some
    /\ last_call.prior.value.kind = "Error"
    /\ last_call.prior.value.error = "transport"
    /\ active_requests[last_call.recipe_id] = Loading(now)
    /\ \E q \in RequestIds : requests[q].recipe_id = last_call.recipe_id

(***************************************************************************)
(* C14: a completed request is stored and shown, and a later render of a   *)
(* chain reads the latest record of the chain's source                     *)
(***************************************************************************)
\* this step, the control loop handles the completion of a request of recipe_id
CompletionOf(recipe_id) ==
    /\ Len(requests') < Len(requests)
    /\ last_call'.op = "finish_request"
    /\ last_call'.recipe_id = recipe_id

\* this step, the record of a response of recipe_id is added to the repository
StoredNow(recipe_id) ==
    /\ Len(repository'.records[recipe_id]) = Len(repository.records[recipe_id]) + 1
    /\ SubSeq(repository'.records[recipe_id], 1, Len(repository.records[recipe_id]))
           = repository.records[recipe_id]
    /\ repository'.records[recipe_id][Len(repository'.records[recipe_id])].success

\* this step, the render in progress resolves a placeholder chains.<id> whose
\* chain takes recipe_id as its source
ResolvesChainOf(recipe_id) ==
    /\ render_call.pc = "await"
    /\ render_call'.pc # "await"
    /\ \E k \in 1 .. Len(ChainContext.chains) :
           /\ ChainContext.chains[k].source = recipe_id
           /\ render_call.st.captures[render_call.st.i].key_raw
                  = <<"chains", ".">> \o ChainContext.chains[k].id

\* this step's resolution took the body of the latest record of recipe_id, or
\* failed for want of a successful latest attempt
ReadLatestOf(recipe_id) ==
    LET attempts == repository.records[recipe_id]
    IN  IF Len(attempts) > 0 /\ attempts[Len(attempts)].success
        THEN /\ ~ render_call'.st.result.some
             /\ render_call'.st.new = OutputWith(attempts[Len(attempts)].response.body)
        ELSE /\ render_call'.st.result.some
             /\ ~ render_call'.st.result.value.ok
             /\ render_call'.st.result.value.error.variant = "ChainNoResponse"

Ends == {k \in 1 .. Len(render_call.trace) : render_call.trace[k].event = "end"}

\* the chain of the render context that key_raw names, if it names one
ChainNamed(key_raw) ==
    {k \in 1 .. Len(ChainContext.chains) :
        key_raw = <<"chains", ".">> \o ChainContext.chains[k].id}

\* C15: when a chain key occurs several times in one template, every
\* occurrence that is given a value is given the body of the record that was
\* the latest of the chain's source when that occurrence was resolved, whatever
\* the earlier occurrences were given: if a record was stored between two
\* resolutions, the two values in the output differ.
C15_RepeatedChainKeyReadAgain ==
    render_call.pc # "idle" =>
        \A j \in Ends, i \in Ends :
            LET first == render_call.trace[j]
                second == render_call.trace[i]
            IN  (/\ j < i
                 /\ first.key_raw = second.key_raw
                 /\ first.value.some
                 /\ second.value.some)
                => \A k \in ChainNamed(second.key_raw) :
                       LET source == ChainContext.chains[k].source
                       IN  /\ second.version[source] > 0
                           /\ repository.records[source][second.version[source]].success
                           /\ second.value.value =
                                  repository.records[source][second.version[source]].response.body
                           /\ second.version[source] # first.version[source]
                                  => second.value.value # first.value.value

\* C15 witness: a render of a template with chains.c1 twice has returned an
\* output with the body of the first record and then that of the second.
C15_Witness ==
    /\ render_call.pc = "done"
    /\ render_call.st.result = Some(Ok(BodyOf(1) \o <<"-">> \o BodyOf(2)))
    /\ \E j \in Ends, i \in Ends :
           /\ j < i
           /\ render_call.trace[j].key_raw = render_call.trace[i].key_raw
           /\ render_call.trace[j].version["r1"] = 1
           /\ render_call.trace[i].version["r1"] = 2

(***************************************************************************)
(* C16: the placeholders of a template are resolved from left to right,    *)
(* one at a time                                                           *)
(***************************************************************************)
\* where in the template the capture of entry k of the trace starts and ends
StartOf(k) == render_call.st.captures[render_call.trace[k].capture].start
EndOf(k) == render_call.st.captures[render_call.trace[k].capture].end

\* C16: in a render, a resolution starts only when the one before it has
\* ended, and it is the resolution of the leftmost placeholder not yet
\* resolved: every placeholder to the left of one whose resolution has started
\* has ended its own before.
C16_LeftToRightOneAtATime ==
    render_call.pc # "idle" =>
        /\ \A k \in 1 .. Len(render_call.trace) :
               /\ render_call.trace[k].event = IF k % 2 = 1 THEN "start" ELSE "end"
               /\ k % 2 = 0 => render_call.trace[k].capture = render_call.trace[k - 1].capture
               /\ k > 2 /\ k % 2 = 1 => EndOf(k - 2) <= StartOf(k)
               /\ k % 2 = 1 =>
                      \A c \in 1 .. Len(render_call.st.captures) :
                          render_call.st.captures[c].start < StartOf(k)
                              => \E e \in 1 .. (k - 1) :
                                     /\ render_call.trace[e].event = "end"
                                     /\ render_call.trace[e].capture = c
        /\ render_call.pc = "await" <=> Len(render_call.trace) % 2 = 1

\* C16 witness: a render of a field and then a chain has returned; the chain
\* was resolved, from the repository, after the field.
C16_Witness ==
    /\ render_call.pc = "done"
    /\ render_call.st.template = <<"{{", "a", "}}", "{{", "chains", ".", "c1", "}}">>
    /\ Len(render_call.trace) = 4
    /\ render_call.trace[2].key_raw = <<"a">>
    /\ render_call.trace[4].key_raw = <<"chains", ".", "c1">>
    /\ render_call.st.result = Some(Ok(<<"1">> \o BodyOf(1)))

(***************************************************************************)
(* C17: into_owned changes nothing but the ownership of the strings        *)
(***************************************************************************)
\* C17: for every borrowed error, into_owned returns an error of the same
\* variant whose identifier strings (key, field, chain_id, path, variable)
\* have the same text, now owned, and whose underlying error is the same.
C17_IntoOwnedLossless ==
    fn_call.op = "into_owned" =>
        LET borrowed == fn_call.args[1]
            owned == fn_call.result
        IN  /\ owned.variant = borrowed.variant
            /\ DOMAIN owned = DOMAIN borrowed
            /\ \A f \in DOMAIN borrowed \ {"variant"} :
                   IF f = "error" THEN owned.error = borrowed.error
                   ELSE /\ owned[f].text = borrowed[f].text
                        /\ owned[f].owned

(***************************************************************************)
(* C18: a render error names the placeholder that failed                   *)
(***************************************************************************)
\* the identifiers an error carries: raw key, field name, chain id, variable
Identifiers(e) ==
    {e[f].text : f \in DOMAIN e \cap {"key", "field", "chain_id", "variable"}}

\* C18: every error that render_borrow returns carries an identifier, and the
\* identifier is the raw key of a placeholder of the template or a segment of
\* that key; this on every failure path, a failed read of the repository
\* included.
C18_RenderErrorNamesPlaceholder ==
    (fn_call.op = "render_borrow" /\ ~ fn_call.result.ok) =>
        /\ Identifiers(fn_call.result.error) # {}
        /\ \E capture \in {captures_iter(fn_call.args[1])[c] :
                              c \in 1 .. Len(captures_iter(fn_call.args[1]))} :
               \A id \in Identifiers(fn_call.result.error) :
                   \/ id = capture.key_raw
                   \/ \E k \in 1 .. Len(split(capture.key_raw)) :
                          id = split(capture.key_raw)[k]

(***************************************************************************)
(* C19: the shape of a key decides what it is                              *)
(***************************************************************************)
\* the number of separators in key text s, and the text after the first two
\* tokens
Dots(s) == Cardinality({i \in 1 .. Len(s) : s[i] = "."})
AfterPrefix(s) == SubSeq(s, 3, Len(s))

\* key text s has an empty segment: it is empty, starts or ends with a
\* separator, or has two separators in a row
HasEmptySegment(s) ==
    \/ s = << >>
    \/ s[1] = "."
    \/ s[Len(s)] = "."
    \/ \E i \in 1 .. (Len(s) - 1) : s[i] = "." /\ s[i + 1] = "."

\* what the shape of key text s makes of it when empty segments are let
\* through: a field, a chain, an environment variable, or an invalid key
ByShape(s) ==
    IF Dots(s) = 0 THEN Ok(Field(Borrowed(s)))
    ELSE IF Dots(s) = 1 /\ Len(s) >= 2 /\ s[1] = "chains" /\ s[2] = "."
    THEN Ok(Chain(Borrowed(AfterPrefix(s))))
    ELSE IF Dots(s) = 1 /\ Len(s) >= 2 /\ s[1] = "env" /\ s[2] = "."
    THEN Ok(Environment(Borrowed(AfterPrefix(s))))
    ELSE Err(InvalidKey(Borrowed(s)))

\* C19 as claimed: one segment gives Field, the two segments chains,<id> give
\* Chain(id), the two segments env,<name> give Environment(name), and every
\* other shape, any key with an empty segment or with more than two segments
\* included, fails as InvalidKey carrying the raw key text.
C19_ParseByShapeNoEmptySegment ==
    fn_call.op = "parse" =>
        fn_call.result =
            IF HasEmptySegment(fn_call.args[1])
            THEN Err(InvalidKey(Borrowed(fn_call.args[1])))
            ELSE ByShape(fn_call.args[1])

\* C19 amended: one segment gives Field; the two segments
\* chains,<id> give Chain(id) and the two segments env,<name> give
\* Environment(name), also when the second segment is empty (`chains.` is
\* Chain("")); every other shape (two segments whose first is neither chains
\* nor env, such as `.`, `.bad` and `bad.`, or more than two segments) fails as
\* InvalidKey carrying the raw key text.
C19_ParseByShape ==
    fn_call.op = "parse" => fn_call.result = ByShape(fn_call.args[1])

\* C19 witness: `chains.` has been parsed, and is the chain with the empty id.
C19_Witness ==
    /\ fn_call.op = "parse"
    /\ fn_call.args[1] = <<"chains", ".">>
    /\ fn_call.result = Ok(Chain(Borrowed(<< >>)))

(***************************************************************************)
(* C20: a field is taken from the overrides, then from the profile         *)
(***************************************************************************)
\* C20: a field key resolves to the value of the overrides when the overrides
\* have the name, else to the value of the profile when the profile has it,
\* else it fails as FieldUnknown naming the field.
C20_OverrideThenProfile ==
    fn_call.op = "FieldSource_render" =>
        LET field == fn_call.args[1]
            context == fn_call.args[2]
        IN  fn_call.result =
                IF field.text \in DOMAIN context.overrides
                THEN Ok(context.overrides[field.text])
                ELSE IF field.text \in DOMAIN context.profile
                THEN Ok(context.profile[field.text])
                ELSE Err(FieldUnknown(field))

\* C20 witness: a field that the profile and the overrides give different
\* values has been resolved to the value of the overrides.
C20_Witness ==
    /\ fn_call.op = "FieldSource_render"
    /\ fn_call.args[1].text \in DOMAIN fn_call.args[2].overrides
    /\ fn_call.args[1].text \in DOMAIN fn_call.args[2].profile
    /\ fn_call.args[2].overrides[fn_call.args[1].text]
           # fn_call.args[2].profile[fn_call.args[1].text]
    /\ fn_call.result = Ok(fn_call.args[2].overrides[fn_call.args[1].text])

(***************************************************************************)
(* C21: a chain without a successful latest response is ChainNoResponse    *)
(***************************************************************************)
\* the latest call is ChainSource::render(chain_id, context, repo)
ChainCalled == fn_call.op = "ChainSource_render"
CalledChainId == fn_call.args[1]
CalledContext == fn_call.args[2]
CalledRepository == fn_call.args[3]

\* the chains of the context of the call that have the id asked for
CalledChains ==
    {CalledContext.chains[k] : k \in {i \in 1 .. Len(CalledContext.chains) :
                                         CalledContext.chains[i].id = CalledChainId.text}}

\* C21: when the chain is defined and the repository, read without error, has
\* no attempt of the chain's source recipe, or has a latest attempt that did
\* not succeed (whatever the attempts before it), the chain fails as
\* ChainNoResponse with the chain id.
C21_NoSuccessfulLatestIsNoResponse ==
    ChainCalled =>
        \A chain \in CalledChains :
            LET attempts == CalledRepository.records[chain.source]
            IN  (/\ CalledRepository.available
                 /\ \/ Len(attempts) = 0
                    \/ ~ attempts[Len(attempts)].success)
                => fn_call.result = Err(ChainNoResponse(CalledChainId))

\* C21 witness: chain c1 failed as ChainNoResponse on a repository where an
\* attempt of its source succeeded and a later one failed.
C21_Witness ==
    /\ ChainCalled
    /\ CalledChainId.text = <<"c1">>
    /\ CalledChains # {}
    /\ CalledRepository.available
    /\ Len(CalledRepository.records["r1"]) = 2
    /\ CalledRepository.records["r1"][1].success
    /\ ~ CalledRepository.records["r1"][2].success
    /\ fn_call.result = Err(ChainNoResponse(CalledChainId))

(***************************************************************************)
(* C22: a chain that is not defined is ChainUnknown                        *)
(***************************************************************************)
\* C22: when no chain of the context has the id asked for, the chain fails as
\* ChainUnknown with that id whatever the repository holds, and also when the
\* repository cannot be read: the repository is not read.
C22_UndefinedChainIsUnknown ==
    (ChainCalled /\ CalledChains = {})
        => fn_call.result = Err(ChainUnknown(CalledChainId))

\* C22 witness: chain zz, which the context does not define though it defines
\* others, failed as ChainUnknown on a repository that cannot be read.
C22_Witness ==
    /\ ChainCalled
    /\ CalledChainId.text = <<"zz">>
    /\ Len(CalledContext.chains) > 0
    /\ CalledChains = {}
    /\ ~ CalledRepository.available
    /\ fn_call.result = Err(ChainUnknown(CalledChainId))

(***************************************************************************)
(* C23: what is not a placeholder is copied as it is                       *)
(***************************************************************************)
\* the latest call is render_borrow(template, FnContext, repo)
RenderCalled == fn_call.op = "render_borrow"
CalledTemplate == fn_call.args[1]

\* template t up to and with its i-th match, every match replaced by value
RECURSIVE Spliced(_, _, _, _)
Spliced(t, matches, i, value) ==
    IF i = 0 THEN << >>
    ELSE Spliced(t, matches, i - 1, value)
         \o SubSeq(t, IF i = 1 THEN 1 ELSE matches[i - 1].end, matches[i].start - 1)
         \o value

\* the text of template t after its last match
TextAfter(t, matches) ==
    SubSeq(t, IF Len(matches) = 0 THEN 1 ELSE matches[Len(matches)].end, Len(t))

\* C23: a template without any placeholder match renders to itself; and when
\* a template whose placeholders all name field a renders, the output is the
\* template with every match replaced by the value of a, the text before,
\* between and after the matches being as it was.
C23_LiteralTextVerbatim ==
    RenderCalled =>
        LET matches == captures_iter(CalledTemplate)
        IN  /\ Len(matches) = 0 => fn_call.result = Ok(CalledTemplate)
            /\ (\A i \in 1 .. Len(matches) : matches[i].key_raw = <<"a">>)
                   => fn_call.result =
                          Ok(Spliced(CalledTemplate, matches, Len(matches),
                                     FnContext.profile[<<"a">>])
                             \o TextAfter(CalledTemplate, matches))

\* C23 witness: a template of a lone opening, two placeholders of field a
\* with text between them, and a lone closing after them, has been rendered.
C23_Witness ==
    /\ RenderCalled
    /\ CalledTemplate = <<"{{", "{{", "a", "}}", "x", "{{", " ", "a", "}}", "}}">>
    /\ fn_call.result = Ok(<<"{{", "1", "x", "1", "}}">>)

(***************************************************************************)
(* C24: the error of build_request tells which field failed                *)
(***************************************************************************)
\* the templated fields of a recipe: the name of each and its template
FieldsOf(recipe) ==
    {[name |-> <<"method">>, template |-> recipe.method],
     [name |-> <<"url">>, template |-> recipe.url]}
    \cup {[name |-> recipe.headers[i].key, template |-> recipe.headers[i].value] :
             i \in 1 .. Len(recipe.headers)}
    \cup (IF recipe.body.some
          THEN {[name |-> <<"body">>, template |-> recipe.body.value]}
          ELSE {})

\* C24: when build_request fails at the render of a field of the recipe, the
\* error it returns wraps the render error of that field and names the field
\* (the method, the URL, the header, or the body).
C24_BuildErrorNamesField ==
    (fn_call.op = "build_request" /\ ~ fn_call.result.ok) =>
        \E field \in FieldsOf(fn_call.args[1]) :
            /\ ~ render(field.template, BuildContext, repository,
                        ProcessEnvironment).ok
            /\ fn_call.result.error.source =
                   render(field.template, BuildContext, repository,
                          ProcessEnvironment).error
            /\ fn_call.result.error.about = field.name

(***************************************************************************)
(* C25: a chain without a path is the stored body                          *)
(***************************************************************************)
\* the latest attempt of the source of chain in the repository of the call,
\* when the repository can be read and that attempt succeeded
LatestSuccess(chain) ==
    LET attempts == CalledRepository.records[chain.source]
    IN  IF /\ CalledRepository.available
           /\ Len(attempts) > 0
           /\ attempts[Len(attempts)].success
        THEN Some(attempts[Len(attempts)])
        ELSE None

\* C25: a defined chain without a JSON-path, whose source has a successful
\* latest attempt, resolves to the body of that response as it was stored,
\* whether or not the body is JSON.
C25_NoPathIsBodyVerbatim ==
    ChainCalled =>
        \A chain \in CalledChains :
            (~ chain.path.some /\ LatestSuccess(chain).some)
                => fn_call.result = Ok(LatestSuccess(chain).value.response.body)

\* C25 witness: chain c1, without a path, resolved to a body that is declared
\* as JSON and is not JSON.
C25_Witness ==
    /\ ChainCalled
    /\ \E chain \in CalledChains :
           /\ ~ chain.path.some
           /\ LatestSuccess(chain).some
           /\ LatestSuccess(chain).value.response.content_type = "json"
           /\ ~ json_from_str(LatestSuccess(chain).value.response.body).ok
           /\ fn_call.result = Ok(LatestSuccess(chain).value.response.body)

(***************************************************************************)
(* C26: a chain with a path is the one node the path selects               *)
(***************************************************************************)
\* the nodes that the path of chain selects in the body of the latest
\* successful response of its source, when the path is well formed and the
\* body is JSON and declared as JSON
NodesSelected(chain) ==
    IF /\ chain.path.some
       /\ JsonPath_parse(chain.path.value).ok
       /\ LatestSuccess(chain).some
       /\ LatestSuccess(chain).value.response.content_type = "json"
       /\ json_from_str(LatestSuccess(chain).value.response.body).ok
    THEN Some(query(JsonPath_parse(chain.path.value).value,
                    json_from_str(LatestSuccess(chain).value.response.body).value))
    ELSE None

\* C26: a chain with a JSON-path resolves only when the path selects exactly
\* one node of the parsed body: to the contents of the node, unquoted, when
\* the node is a JSON string, and to its compact JSON text otherwise; when the
\* path selects no node, or two or more, the chain fails as ChainInvalidResult.
C26_ExactlyOneNodeStringified ==
    ChainCalled =>
        \A chain \in CalledChains :
            /\ (chain.path.some /\ fn_call.result.ok)
                   => /\ NodesSelected(chain).some
                      /\ Len(NodesSelected(chain).value) = 1
            /\ NodesSelected(chain).some
                   => LET nodes == NodesSelected(chain).value
                      IN  IF Len(nodes) = 1
                          THEN fn_call.result =
                                   Ok(IF nodes[1].type = "string"
                                      THEN <<nodes[1].s>>
                                      ELSE json_to_string(nodes[1]))
                          ELSE /\ ~ fn_call.result.ok
                               /\ fn_call.result.error.variant = "ChainInvalidResult"
                               /\ fn_call.result.error.chain_id = CalledChainId

\* C26 witness: the path $.* on a body that is an array of two numbers failed
\* as ChainInvalidResult.
C26_Witness ==
    /\ ChainCalled
    /\ \E chain \in CalledChains :
           /\ chain.path = Some(<<"$", ".", "*">>)
           /\ NodesSelected(chain).some
           /\ Len(NodesSelected(chain).value) = 2
           /\ fn_call.result = Err(ChainInvalidResult(CalledChainId, "MoreThanOne"))

(***************************************************************************)
(* C27: an environment key is the process environment variable             *)
(***************************************************************************)
\* the latest call rendered environment key CalledKey in CalledEnvironment
EnvironmentCalled == fn_call.op = "EnvironmentSource_render"
CalledKey == fn_call.args[1]
CalledEnvironment == fn_call.args[4]

\* C27 as claimed: an environment key renders to the value the process
\* environment gives the variable when the variable is set, and fails as
\* EnvironmentVariable with the name of the variable when it is not; the
\* profile, the overrides, the chains and the repository of the render context
\* do not matter.
C27_EnvironmentSetOrUnset ==
    EnvironmentCalled =>
        fn_call.result =
            IF CalledKey.name.text \in DOMAIN CalledEnvironment
            THEN Ok(CalledEnvironment[CalledKey.name.text])
            ELSE Err(EnvironmentVariable(CalledKey.name, "NotPresent"))

\* C27 amended: an environment key renders to the value the process
\* environment gives the variable when the variable is set to valid Unicode
\* text, and fails as EnvironmentVariable with the name of the variable when
\* the variable is not set or is set to a value that is not valid Unicode; the
\* profile, the overrides, the chains and the repository of the render context
\* do not matter.
C27_EnvironmentOnly ==
    EnvironmentCalled =>
        fn_call.result =
            IF CalledKey.name.text \notin DOMAIN CalledEnvironment
            THEN Err(EnvironmentVariable(CalledKey.name, "NotPresent"))
            ELSE IF \E i \in 1 .. Len(CalledEnvironment[CalledKey.name.text]) :
                        CalledEnvironment[CalledKey.name.text][i] = InvalidByte
            THEN Err(EnvironmentVariable(CalledKey.name, "NotUnicode"))
            ELSE Ok(CalledEnvironment[CalledKey.name.text])

\* C27 witness: variable HOME is not set, the overrides of the context have an
\* entry HOME, and the key env.HOME failed as EnvironmentVariable.
C27_Witness ==
    /\ EnvironmentCalled
    /\ CalledKey.name.text = <<"HOME">>
    /\ <<"HOME">> \notin DOMAIN CalledEnvironment
    /\ <<"HOME">> \in DOMAIN fn_call.args[2].overrides
    /\ fn_call.result = Err(EnvironmentVariable(CalledKey.name, "NotPresent"))

(***************************************************************************)
(* C28: the keys of the tests of TemplateKey::parse                        *)
(***************************************************************************)
\* C28: the key `chains.` parses as the chain with the empty id, and the keys
\* `.`, `.bad`, `bad.` and `chains.good.bad` fail as InvalidKey with the key.
C28_TestedKeys ==
    fn_call.op = "parse" =>
        /\ fn_call.args[1] = <<"chains", ".">>
               => fn_call.result = Ok(Chain(Borrowed(<< >>)))
        /\ fn_call.args[1] \in {<<".">>, <<".", "bad">>, <<"bad", ".">>,
                                <<"chains", ".", "good", ".", "bad">>}
               => fn_call.result = Err(InvalidKey(Borrowed(fn_call.args[1])))

\* C28 witness: `chains.good.bad` has been parsed, and is an invalid key.
C28_Witness ==
    /\ fn_call.op = "parse"
    /\ fn_call.args[1] = <<"chains", ".", "good", ".", "bad">>
    /\ fn_call.result = Err(InvalidKey(Borrowed(<<"chains", ".", "good", ".", "bad">>)))

(***************************************************************************)
(* C29: a reload of the collection forgets every request                   *)
(***************************************************************************)
\* C29: right after reload_collection the map of active requests is empty:
\* no recipe has a request state and can_send_request holds for every recipe,
\* whatever requests are still with their background tasks.
C29_ReloadForgetsRequests ==
    last_call.op = "reload_collection" =>
        /\ active_requests = HashMapNew
        /\ \A r \in RecipeIds :
               /\ Get(active_requests, r) = None
               /\ can_send_request(UiSelecting(r))

\* C29 witness: the collection was reloaded while r1 was Loading and its
\* request was with its background task; r1 is selected and can be sent.
C29_Witness ==
    /\ last_call.op = "reload_collection"
    /\ Kind(last_call.prior.value, "r1") = "Loading"
    /\ \E q \in RequestIds :
           /\ requests[q].recipe_id = "r1"
           /\ requests[q].pc = "sent"
           /\ requests[q].tasks > 0
    /\ selected(recipes) = Some("r1")
    /\ can_send_request(ui)

(***************************************************************************)
(* C30: an operation on a recipe leaves the other recipes alone            *)
(***************************************************************************)
\* C30: a step that calls start_request, finish_request or fail_request for a
\* recipe leaves the request state of every other recipe, present or absent,
\* as it was.
C30_OtherRecipesUntouched ==
    [][last_call'.op \in {"start_request", "finish_request", "fail_request"}
          => \A other \in RecipeIds \ {last_call'.recipe_id} :
                 Get(active_requests', other) = Get(active_requests, other)]_vars

\* C30 witness: fail_request has just moved r1 from Loading to Error while r2
\* shows a response.
C30_Witness ==
    /\ last_call.op = "fail_request"
    /\ last_call.recipe_id = "r1"
    /\ Kind(active_requests, "r1") = "Error"
    /\ Kind(active_requests, "r2") = "Response"

(***************************************************************************)
(* C31: a stored response belongs to the recipe it is stored under         *)
(***************************************************************************)
\* C31: in every reachable state, a recipe whose request state is
\* Response(record) is the recipe of the record's request.
C31_ResponseUnderItsRecipe ==
    \A r \in DOMAIN active_requests :
        active_requests[r].kind = "Response"
            => active_requests[r].record.request.recipe_id = r

\* C31 witness: finish_request has stored a record for each of the two
\* recipes, the later one while the other already showed its response.
C31_Witness ==
    /\ last_call.op = "finish_request"
    /\ \A r \in RecipeIds :
           /\ Kind(active_requests, r) = "Response"
           /\ active_requests[r].record.request.recipe_id = r

(***************************************************************************)
(* C32: a recipe does not stay loading forever                             *)
(***************************************************************************)
\* C32: while the background work of every pending request goes on and its
\* completion is delivered, a recipe that is Loading eventually is not
\* Loading any more (it shows a response or an error, or the collection was
\* reloaded).
C32_LoadingEventuallyLeaves ==
    \A r \in RecipeIds :
        (Kind(active_requests, r) = "Loading")
            ~> (Kind(active_requests, r) # "Loading")

\* C32 witness: the delivery of the last pending completion has taken a
\* recipe out of Loading.
C32_Witness ==
    /\ last_call.op \in {"finish_request", "fail_request"}
    /\ last_call.prior.some
    /\ last_call.prior.value.kind = "Loading"
    /\ Kind(active_requests, last_call.recipe_id) \in {"Response", "Error"}
    /\ requests = << >>

(***************************************************************************)
(* C33: a render stops at the first placeholder that fails                 *)
(***************************************************************************)
\* the repository as it was when it held `version` records of every recipe
RepositoryAt(version) ==
    [repository EXCEPT !.records =
        [r \in RecipeIds |-> SubSeq(repository.records[r], 1, version[r])]]

\* what a placeholder of key text key_raw resolves to from repository repo:
\* its value, or the error of TemplateKey::parse or of its source
ResolutionOf(key_raw, repo) ==
    CHOOSE resolved \in
        {IF key.ok
         THEN render_value(key.value, ChainContext, repo, ProcessEnvironment)
         ELSE key : key \in {parse(key_raw)}} : TRUE

\* C33: in a render call, a placeholder whose resolution fails is the last
\* one the call resolves: the call is over at once, it returns that
\* placeholder's error instead of an output string, and no resolution of a
\* later placeholder (no later read of the repository or of the
\* environment) is started.
C33_StopsAtFirstFailure ==
    render_call.pc # "idle" =>
        \A k \in 1 .. Len(render_call.trace) :
            render_call.trace[k].event = "end" =>
                \A resolved \in {ResolutionOf(render_call.trace[k].key_raw,
                                     RepositoryAt(render_call.trace[k].version))} :
                    ~ resolved.ok =>
                        /\ k = Len(render_call.trace)
                        /\ render_call.pc = "done"
                        /\ render_call.st.result = Some(Err(resolved.error))
                        /\ \A c \in 1 .. Len(render_call.st.captures) :
                               c > render_call.trace[k].capture
                                   => \A e \in 1 .. Len(render_call.trace) :
                                          render_call.trace[e].capture # c

\* C33 witness: a render of three placeholders has returned the error of the
\* second, an unknown chain, although the repository holds a response that
\* the third would have read.
C33_Witness ==
    /\ render_call.pc = "done"
    /\ Len(render_call.st.captures) = 3
    /\ Len(render_call.trace) = 4
    /\ render_call.st.result = Some(Err(ChainUnknown(Borrowed(<<"zz">>))))
    /\ get_last(repository, "r1") # Ok(None)

(***************************************************************************)
(* C34: a chain resolution reports the first check that fails              *)
(***************************************************************************)
\* the checks of a chain resolution, in the order claimed, each named by the
\* variant of the error it gives
ChainCheckOrder ==
    <<"ChainUnknown", "Repository", "ChainNoResponse", "ChainJsonPath",
      "ChainParseResponse", "ChainIncorrectContentType", "ChainInvalidResult">>

\* the latest attempt of the source of chain in the repository of the call,
\* when it succeeded, whether or not the repository can be read
LatestStored(chain) ==
    LET attempts == CalledRepository.records[chain.source]
    IN  IF Len(attempts) > 0 /\ attempts[Len(attempts)].success
        THEN Some(attempts[Len(attempts)])
        ELSE None

\* check number i of ChainCheckOrder fails on the arguments of the call, taken
\* by itself: whether the checks before it pass or not
CheckFails(i) ==
    IF i = 1 THEN CalledChains = {}
    ELSE \E chain \in CalledChains :
             CASE i = 2 -> ~ CalledRepository.available
               [] i = 3 -> ~ LatestStored(chain).some
               [] i = 4 -> chain.path.some /\ ~ JsonPath_parse(chain.path.value).ok
               [] i = 5 -> /\ chain.path.some
                           /\ LatestStored(chain).some
                           /\ LatestStored(chain).value.response.content_type = "json"
                           /\ ~ json_from_str(LatestStored(chain).value.response.body).ok
               [] i = 6 -> /\ chain.path.some
                           /\ LatestStored(chain).some
                           /\ LatestStored(chain).value.response.content_type # "json"
               [] i = 7 -> /\ NodesSelected(chain).some
                           /\ Len(NodesSelected(chain).value) # 1

\* C34: a chain resolution fails exactly when one of its checks fails, and
\* then with the error of the first failing check in the order: chain lookup,
\* repository read, record present, path parse, body parse, content type,
\* exactly one match.
C34_FirstFailingCheckReported ==
    ChainCalled =>
        LET failed == {i \in 1 .. Len(ChainCheckOrder) : CheckFails(i)}
        IN  IF failed = {} THEN fn_call.result.ok
            ELSE /\ ~ fn_call.result.ok
                 /\ fn_call.result.error.variant =
                        ChainCheckOrder[CHOOSE i \in failed :
                                            \A j \in failed : i <= j]

\* C34 witness: a malformed path on a body that is declared as JSON and is
\* not JSON failed as ChainJsonPath.
C34_Witness ==
    /\ ChainCalled
    /\ CheckFails(4)
    /\ CheckFails(5)
    /\ ~ fn_call.result.ok
    /\ fn_call.result.error.variant = "ChainJsonPath"

(***************************************************************************)
(* C35: the duration of a request in flight runs, that of a failed one     *)
(* stands                                                                  *)
(***************************************************************************)
\* C35: whatever is called between two polls, the duration of a recipe that
\* stays Loading is the time since its start and is not less at the later
\* poll than at the earlier one, and the duration of a recipe that stays in
\* Error is the time from its start to its failure, the same at both polls.
C35_DurationRunsThenStands ==
    [][\A r \in RecipeIds :
           /\ (Kind(active_requests, r) = "Loading"
                   /\ Kind(active_requests', r) = "Loading")
                  => /\ duration(active_requests'[r], now')
                            = now' - start_time_of(active_requests'[r])
                     /\ duration(active_requests'[r], now')
                            >= duration(active_requests[r], now)
           /\ (Kind(active_requests, r) = "Error"
                   /\ Kind(active_requests', r) = "Error")
                  => /\ duration(active_requests'[r], now')
                            = active_requests'[r].end_time
                                  - active_requests'[r].start_time
                     /\ duration(active_requests'[r], now')
                            = duration(active_requests[r], now)]_vars

\* C35 witness: the clock has advanced while r1 was Loading and r2 was in
\* Error: the duration of r1 has grown and that of r2 is what it was when r2
\* failed.
C35_Witness ==
    /\ Kind(active_requests, "r1") = "Loading"
    /\ duration(active_requests["r1"], now) > 0
    /\ Kind(active_requests, "r2") = "Error"
    /\ duration(active_requests["r2"], now) < now - active_requests["r2"].start_time

(***************************************************************************)
(* C37: next and previous on a StatefulList                                *)
(***************************************************************************)
\* C37: after any sequence of next and previous calls on a StatefulList,
\* also one built from zero items, the selection is none or the index of an
\* item of the list, and no call has failed (no division by zero, no index
\* underflow).
C37_ListSelectionValid ==
    /\ ~ panicked
    /\ recipes.state.some => recipes.state.value < Len(recipes.items)

(***************************************************************************)
(* C36: next and previous on a StatefulSelect                              *)
(***************************************************************************)
\* C36: after any sequence of next and previous calls on a StatefulSelect (the
\* panes, the request tabs, the response tabs) the selected index is an index
\* of the value list; next moves to the following value and from the last
\* value to the first, previous moves to the value before and from the first
\* value to the last, and a previous that follows a next on the same
\* selection restores what was selected before the next.
C36_SelectionCycles ==
    \A which \in SelectNames :
        /\ SelectOf(ui, which).selected \in 0 .. (Len(SelectOf(ui, which).values) - 1)
        /\ (last_call.op = "next" /\ last_call.recipe_id = which)
               => SelectOf(ui, which).selected =
                      IF last_call.prior.value.selected
                             = Len(SelectOf(ui, which).values) - 1
                      THEN 0
                      ELSE last_call.prior.value.selected + 1
        /\ (last_call.op = "previous" /\ last_call.recipe_id = which)
               => /\ SelectOf(ui, which).selected =
                         IF last_call.prior.value.selected = 0
                         THEN Len(SelectOf(ui, which).values) - 1
                         ELSE last_call.prior.value.selected - 1
                  /\ (last_call.arg.value.op = "next"
                          /\ last_call.arg.value.recipe_id = which)
                         => SelectOf(ui, which) = last_call.arg.value.prior.value

\* C36 witness: previous has just taken the panes back from the first pane to
\* the last, where they were before the next that came before it.
C36_Witness ==
    /\ last_call.op = "previous"
    /\ last_call.recipe_id = "selected_pane"
    /\ last_call.prior.value.selected = 0
    /\ last_call.arg.value.op = "next"
    /\ last_call.arg.value.recipe_id = "selected_pane"
    /\ selected_index(selected_pane) = Len(PrimaryPane) - 1

(***************************************************************************)
(* C39: the error popup takes the input while an error is stored           *)
(***************************************************************************)
\* the handler of the pane selected in the UiState
PaneHandler(ui_state) ==
    PrimaryPane_input_handler(StatefulSelect_selected(ui_state.selected_pane))

\* C39: after every step, input_handler returns the handler of the error popup
\* when an error is stored, whichever pane is selected, and the handler of the
\* selected pane when none is; set_error stores an error and clear_error
\* removes it, both without a change of the selected pane, and moving between
\* panes and tabs leaves the stored error as it is.
C39_ErrorPopupFirst ==
    [][/\ error'.some
              => \A i \in 1 .. Len(PrimaryPane) :
                     input_handler([ui EXCEPT
                         !.error = error',
                         !.selected_pane = [selected_pane' EXCEPT !.selected = i - 1]])
                         = "ErrorPopup"
       /\ ~ error'.some
              => input_handler([ui EXCEPT !.error = error',
                                          !.selected_pane = selected_pane'])
                     = PaneHandler([selected_pane |-> selected_pane'])
       /\ last_call'.op = "set_error"
              => error'.some /\ selected_pane' = selected_pane
       /\ last_call'.op = "clear_error"
              => ~ error'.some /\ selected_pane' = selected_pane
       /\ last_call'.op \in {"next", "previous"} => error' = error]_vars

\* C39 witness: an error is stored and the user has moved to the Request pane:
\* the input still goes to the error popup.
C39_Witness ==
    /\ error.some
    /\ last_call.op = "next"
    /\ last_call.recipe_id = "selected_pane"
    /\ StatefulSelect_selected(selected_pane) = "Request"
    /\ input_handler(ui) = "ErrorPopup"
    /\ PaneHandler(ui) = "RequestPane"

C38_RespondsOnceOnSubmit ==
    [][/\ prompt'.pc # "none" => Len(prompt'.sent) <= 1
       /\ (prompt'.pc # "none" /\ prompt'.sent # << >>)
              => \/ prompt.pc = "open" /\ prompt'.pc = "closed"
                 \/ prompt.pc = "closed" /\ prompt' = prompt
       /\ prompt'.pc = "closed"
              => /\ prompt'.ended_by = "submit"
                        => prompt'.sent = <<prompt'.modal.text_box.text>>
                 /\ prompt'.ended_by = "cancel" => prompt'.sent = << >>
                 /\ prompt'.sent # << >> => prompt'.ended_by = "submit"]_vars

\* C38 witness: a prompt with a default value was typed into, submitted and
\* closed: the text was sent, once.
C38_Witness ==
    /\ prompt.pc = "closed"
    /\ prompt.ended_by = "submit"
    /\ prompt.sent = <<(<<"d", "a">>)>>
====
